---- MODULE Spec2Model ----
(***************************************************************************)
(* ActuallyRedactPDF: the redaction engine (lib/pdf-redaction.ts) and the  *)
(* components that drive it (PDFEditor, BatchProcessor).                   *)
(*                                                                         *)
(* Text is a sequence of one-character strings.  A document is a record    *)
(* [pages, meta]; a page is [width, height, renderable, items, raster];    *)
(* an item of a page's text content is [hasStr, str, tx, ty, width,        *)
(* height], tx and ty being transform[4] and transform[5] (bottom-left     *)
(* origin).  Coordinates are whole numbers of page units.                  *)
(***************************************************************************)
EXTENDS Integers, Sequences, FiniteSets, TLC

VARIABLES lib, now, ed, job, run, events, batch, drawn, core, pending

vars == <<lib, now, ed, job, run, events, batch, drawn, core, pending>>

(***************************************************************************)
(* Bounds of the checked inputs.                                           *)
(***************************************************************************)
MaxPages == 2

MaxAreas == 2

MaxClock == 6

\* the redaction boxes an editor session creates
MaxIds == 3

\* the events of the user in an editor session
MaxEvents == 6

\* the events of the user in a session of the batch processor
MaxBatchEvents == 4

\* the files the list of the batch processor is let grow to
MaxBatch == 11

(***************************************************************************)
(* Characters and strings.                                                 *)
(***************************************************************************)
UpperSeq ==
  <<"A","B","C","D","E","F","G","H","I","J","K","L","M",
    "N","O","P","Q","R","S","T","U","V","W","X","Y","Z">>

LowerSeq ==
  <<"a","b","c","d","e","f","g","h","i","j","k","l","m",
    "n","o","p","q","r","s","t","u","v","w","x","y","z">>

Upper == {UpperSeq[i] : i \in 1..Len(UpperSeq)}

Lower == {LowerSeq[i] : i \in 1..Len(LowerSeq)}

Digit == {"0","1","2","3","4","5","6","7","8","9"}

\* \w of the regular expressions
WordChar == Upper \cup Lower \cup Digit \cup {"_"}

\* \s of the regular expressions (the members a text run can hold)
SpaceChar == {" ", "\t", "\n", "\r"}

ToLowerChar(c) ==
  IF c \in Upper
    THEN LowerSeq[CHOOSE i \in 1..Len(UpperSeq) : UpperSeq[i] = c]
    ELSE c

\* String.prototype.toLowerCase
ToLowerCase(s) == [i \in 1..Len(s) |-> ToLowerChar(s[i])]

\* String.prototype.includes
Includes(text, term) ==
  \E i \in 0..(Len(text) - Len(term)) : SubSeq(text, i + 1, i + Len(term)) = term

\* v || d on a number: 0 is falsy
OrElse(v, d) == IF v = 0 THEN d ELSE v

(***************************************************************************)
(* Regular expressions.  A pattern is a sequence of instructions:          *)
(*   wb   \b                                                               *)
(*   cls  a character class with a greedy quantifier {min,max}             *)
(*        (max < 0: unbounded)                                             *)
(*   opt  the start of an optional group (?: ... )? whose first            *)
(*        instruction after the group is at index skip                     *)
(* RxMatch is the backtracking matcher: the end of the first match (in     *)
(* the engine's priority order) of instructions k.. at position pos        *)
(* (1-based), or 0 when there is none.                                     *)
(***************************************************************************)
Wb == [op |-> "wb", set |-> {}, min |-> 0, max |-> 0, skip |-> 0]

Cls(S, m, n) == [op |-> "cls", set |-> S, min |-> m, max |-> n, skip |-> 0]

Opt(j) == [op |-> "opt", set |-> {}, min |-> 0, max |-> 0, skip |-> j]

DashSpace == {"-"} \cup SpaceChar

DashDotSpace == {"-", "."} \cup SpaceChar

EmailLocal == Upper \cup Lower \cup Digit \cup {".", "_", "%", "+", "-"}

EmailDomain == Upper \cup Lower \cup Digit \cup {".", "-"}

\* [A-Z|a-z]: the bar is a member of the class
EmailTld == Upper \cup Lower \cup {"|"}

PatternTypes == {"ssn", "email", "phone", "credit_card"}

PATTERNS ==
  [ssn |->
     <<Wb, Cls(Digit, 3, 3), Cls(DashSpace, 0, 1), Cls(Digit, 2, 2),
       Cls(DashSpace, 0, 1), Cls(Digit, 4, 4), Wb>>,
   email |->
     <<Wb, Cls(EmailLocal, 1, -1), Cls({"@"}, 1, 1), Cls(EmailDomain, 1, -1),
       Cls({"."}, 1, 1), Cls(EmailTld, 2, -1), Wb>>,
   phone |->
     <<Wb,
       Opt(6), Cls({"+"}, 0, 1), Cls({"1"}, 1, 1), Cls(DashDotSpace, 0, 1),
       Opt(11), Cls({"("}, 0, 1), Cls(Digit, 3, 3), Cls({")"}, 0, 1),
                Cls(DashDotSpace, 0, 1),
       Cls(Digit, 3, 3), Cls(DashDotSpace, 0, 1), Cls(Digit, 4, 4), Wb>>,
   credit_card |->
     <<Wb, Cls(Digit, 4, 4), Cls(DashSpace, 0, 1), Cls(Digit, 4, 4),
       Cls(DashSpace, 0, 1), Cls(Digit, 4, 4), Cls(DashSpace, 0, 1),
       Cls(Digit, 4, 4), Wb>>]

IsWordAt(s, i) == i >= 1 /\ i <= Len(s) /\ s[i] \in WordChar

WordBoundary(s, pos) == IsWordAt(s, pos - 1) # IsWordAt(s, pos)

RECURSIVE RunLen(_, _, _, _)
\* how many characters from pos on are in S, counted up to cap
RunLen(S, s, pos, cap) ==
  IF cap = 0 \/ pos > Len(s) \/ s[pos] \notin S
    THEN 0
    ELSE 1 + RunLen(S, s, pos + 1, cap - 1)

RECURSIVE RxMatch(_, _, _, _)
RECURSIVE RxTry(_, _, _, _, _)
\* greedy quantifier: the longest count first, then shorter ones
RxTry(p, k, s, pos, c) ==
  IF c < p[k].min
    THEN 0
    ELSE LET r == RxMatch(p, k + 1, s, pos + c)
         IN  IF r # 0 THEN r ELSE RxTry(p, k, s, pos, c - 1)

RxMatch(p, k, s, pos) ==
  IF k > Len(p)
    THEN pos
    ELSE IF p[k].op = "wb"
      THEN IF WordBoundary(s, pos) THEN RxMatch(p, k + 1, s, pos) ELSE 0
    ELSE IF p[k].op = "cls"
      THEN RxTry(p, k, s, pos,
                 RunLen(p[k].set, s, pos,
                        IF p[k].max < 0 THEN Len(s) ELSE p[k].max))
    ELSE LET r == RxMatch(p, k + 1, s, pos)
         IN  IF r # 0 THEN r ELSE RxMatch(p, p[k].skip, s, pos)

RECURSIVE RegexExec(_, _, _)
\* regex.exec(s) of a global regex whose lastIndex is lastIndex (0-based):
\* <<>> for null, else <<[index, text]>>; the new lastIndex is
\* index + Len(text)
RegexExec(p, s, lastIndex) ==
  IF lastIndex > Len(s)
    THEN <<>>
    ELSE LET e == RxMatch(p, 1, s, lastIndex + 1)
         IN  IF e # 0
               THEN <<[index |-> lastIndex, text |-> SubSeq(s, lastIndex + 1, e - 1)]>>
               ELSE RegexExec(p, s, lastIndex + 1)

(***************************************************************************)
(* lib/pdf-redaction.ts                                                    *)
(***************************************************************************)
\* the members of a sequence
Range(q) == {q[i] : i \in 1..Len(q)}

RECURSIVE Flatten(_)
\* the concatenation of a sequence of sequences
Flatten(q) == IF q = <<>> THEN <<>> ELSE Head(q) \o Flatten(Tail(q))

\* viewport.height of page.getViewport({ scale: 1 })
ViewportHeight(page) == page.height

\* RedactionsByPage, had it passed over the boxes a pattern scan made
RedactionsByPage_SkipsPatternBoxes(redactionAreas, pageIndex) ==
  SelectSeq(redactionAreas,
            LAMBDA a : /\ a.pageIndex = pageIndex
                       /\ ~("source" \in DOMAIN a /\ a.source = "pattern"))

\* const redactionsByPage = new Map(); ... redactionsByPage.get(pageIndex) || []
RedactionsByPage(redactionAreas, pageIndex) ==
  SelectSeq(redactionAreas, LAMBDA a : a.pageIndex = pageIndex)

\* ScaledRect, had fillRect been given the area as it is
ScaledRect_Unscaled(area, renderScale) ==
  [x |-> area.x, y |-> area.y, width |-> area.width, height |-> area.height]

\* the rectangle ctx.fillRect paints for one area, in raster pixels
ScaledRect(area, renderScale) ==
  [x      |-> area.x * renderScale,
   y      |-> area.y * renderScale,
   width  |-> area.width * renderScale,
   height |-> area.height * renderScale]

\* FlattenPage, had the new page kept the old page's text under the image
FlattenPage_KeepsText(page, pageIndex, redactionAreas, renderScale) ==
  LET pageRedactions == RedactionsByPage(redactionAreas, pageIndex)
  IN  [width      |-> page.width,
       height     |-> page.height,
       renderable |-> TRUE,
       items      |-> page.items,
       raster     |-> <<[src   |-> pageIndex,
                         scale |-> renderScale,
                         masks |-> [i \in 1..Len(pageRedactions) |->
                                      ScaledRect(pageRedactions[i], renderScale)]]>>]

\* one turn of the page loop: the page added to the new document, which
\* holds the drawn image and nothing else
FlattenPage(page, pageIndex, redactionAreas, renderScale) ==
  LET pageRedactions == RedactionsByPage(redactionAreas, pageIndex)
  IN  [width      |-> page.width,
       height     |-> page.height,
       renderable |-> TRUE,
       items      |-> <<>>,
       raster     |-> <<[src   |-> pageIndex,
                         scale |-> renderScale,
                         masks |-> [i \in 1..Len(pageRedactions) |->
                                      ScaledRect(pageRedactions[i], renderScale)]]>>]

\* the metadata redactPdfByAreas sets on the document PDFDocument.create()
\* made; the dates are the ones create() gave it (createdAt)
RedactedMeta(createdAt) ==
  [title        |-> "",
   author       |-> "",
   subject      |-> "",
   keywords     |-> <<>>,
   producer     |-> "ActuallyRedactPDF - True Redaction",
   creator      |-> "ActuallyRedactPDF",
   creationDate |-> createdAt,
   modDate      |-> createdAt]

Rejected(err) == [ok |-> FALSE, err |-> err, pages |-> <<>>, meta |-> RedactedMeta(0)]

RECURSIVE RedactPages(_, _, _, _, _)
\* for (let pageNum = 1; pageNum <= numPages; pageNum++): acc holds the
\* pages added so far; a page.render() that rejects rejects the call
RedactPages(doc, redactionAreas, renderScale, pageNum, acc) ==
  IF pageNum > Len(doc.pages)
    THEN [ok |-> TRUE, err |-> "", pages |-> acc, meta |-> RedactedMeta(0)]
    ELSE IF ~doc.pages[pageNum].renderable
      THEN Rejected("render")
      ELSE RedactPages(doc, redactionAreas, renderScale, pageNum + 1,
                       Append(acc, FlattenPage(doc.pages[pageNum], pageNum - 1,
                                               redactionAreas, renderScale)))

\* RedactPdfByAreas, had it added the pages last to first
RedactPdfByAreas_ReversesPages(doc, redactionAreas, renderScale, createdAt) ==
  LET r == RedactPages(doc, redactionAreas, renderScale, 1, <<>>)
  IN  IF r.ok
        THEN [r EXCEPT !.meta = RedactedMeta(createdAt),
                       !.pages = [i \in 1..Len(r.pages) |-> r.pages[Len(r.pages) + 1 - i]]]
        ELSE r

\* RedactPdfByAreas, had it left out the pages that fail to render
RedactPdfByAreas_SkipsFailedPages(doc, redactionAreas, renderScale, createdAt) ==
  LET kept == [doc EXCEPT !.pages = SelectSeq(doc.pages, LAMBDA p : p.renderable)]
      r    == RedactPages(kept, redactionAreas, renderScale, 1, <<>>)
  IN  [r EXCEPT !.meta = RedactedMeta(createdAt)]

\* redactPdfByAreas(pdfBytes, redactionAreas, renderScale), the document
\* created at time createdAt
RedactPdfByAreas(doc, redactionAreas, renderScale, createdAt) ==
  LET r == RedactPages(doc, redactionAreas, renderScale, 1, <<>>)
  IN  IF r.ok THEN [r EXCEPT !.meta = RedactedMeta(createdAt)] ELSE r

\* the match findTextInPdf and detectSensitivePatterns push for an item
ItemBox(page, item) ==
  [x      |-> item.tx,
   y      |-> (ViewportHeight(page) - item.ty) - OrElse(item.height, 12),
   width  |-> OrElse(item.width, 100),
   height |-> OrElse(item.height, 12) + 4]

FindInItem(page, pageIndex, item, searchTermLower, caseSensitive) ==
  IF ~item.hasStr
    THEN <<>>
    ELSE LET text == IF caseSensitive THEN item.str ELSE ToLowerCase(item.str)
             box  == ItemBox(page, item)
         IN  IF Includes(text, searchTermLower)
               THEN <<[pageIndex |-> pageIndex,
                       text      |-> item.str,
                       x         |-> box.x,
                       y         |-> box.y,
                       width     |-> box.width,
                       height    |-> box.height]>>
               ELSE <<>>

FindInPage(page, pageIndex, searchTermLower, caseSensitive) ==
  Flatten([i \in 1..Len(page.items) |->
             FindInItem(page, pageIndex, page.items[i], searchTermLower, caseSensitive)])

\* FindTextInPdf, had it ended its search at the first page without items
FindTextInPdf_StopsAtEmptyPage(doc, searchTerm, caseSensitive) ==
  LET searchTermLower == IF caseSensitive THEN searchTerm ELSE ToLowerCase(searchTerm)
      searched(p)     == \A q \in 1..p : doc.pages[q].items # <<>>
  IN  Flatten([p \in 1..Len(doc.pages) |->
                 IF searched(p)
                   THEN FindInPage(doc.pages[p], p - 1, searchTermLower, caseSensitive)
                   ELSE <<>>])

\* findTextInPdf(pdfBytes, searchTerm, caseSensitive)
FindTextInPdf(doc, searchTerm, caseSensitive) ==
  LET searchTermLower == IF caseSensitive THEN searchTerm ELSE ToLowerCase(searchTerm)
  IN  Flatten([p \in 1..Len(doc.pages) |->
                 FindInPage(doc.pages[p], p - 1, searchTermLower, caseSensitive)])

RECURSIVE BuildText(_, _, _)
\* the loop that builds fullText and positionMap: [fullText, positionMap]
BuildText(items, fullText, positionMap) ==
  IF items = <<>>
    THEN [fullText |-> fullText, positionMap |-> positionMap]
    ELSE IF ~Head(items).hasStr
      THEN BuildText(Tail(items), fullText, positionMap)
      ELSE LET start == Len(fullText)
               next  == fullText \o Head(items).str \o <<" ">>
           IN  BuildText(Tail(items), next,
                         Append(positionMap,
                                [start |-> start,
                                 end   |-> Len(next) - 1,
                                 item  |-> Head(items)]))

\* LocateMatch, had it taken the first run that starts at or before the match
LocateMatch_FirstRunWins(page, pageIndex, patternType, m, positionMap) ==
  LET late == SelectSeq(positionMap, LAMBDA pos : pos.start <= m.index)
      box  == ItemBox(page, late[1].item)
  IN  IF late = <<>>
        THEN <<>>
        ELSE <<[pageIndex   |-> pageIndex,
                text        |-> m.text,
                pattern     |-> m.text,
                patternType |-> patternType,
                x           |-> box.x,
                y           |-> box.y,
                width       |-> box.width,
                height      |-> box.height]>>

RECURSIVE LocateMatch(_, _, _, _, _)
\* for (const pos of positionMap) { if (...) { matches.push(...); break; } }
LocateMatch(page, pageIndex, patternType, m, positionMap) ==
  IF positionMap = <<>>
    THEN <<>>
    ELSE LET pos == Head(positionMap)
             box == ItemBox(page, pos.item)
         IN  IF pos.start <= m.index /\ pos.end >= m.index
               THEN <<[pageIndex   |-> pageIndex,
                       text        |-> m.text,
                       pattern     |-> m.text,
                       patternType |-> patternType,
                       x           |-> box.x,
                       y           |-> box.y,
                       width       |-> box.width,
                       height      |-> box.height]>>
               ELSE LocateMatch(page, pageIndex, patternType, m, Tail(positionMap))

RECURSIVE ExecLoop(_, _, _, _, _)
\* while ((match = regex.exec(fullText)) !== null) { ... }
ExecLoop(page, pageIndex, patternType, built, lastIndex) ==
  LET match == RegexExec(PATTERNS[patternType], built.fullText, lastIndex)
  IN  IF match = <<>>
        THEN <<>>
        ELSE LocateMatch(page, pageIndex, patternType, match[1], built.positionMap)
             \o ExecLoop(page, pageIndex, patternType, built,
                         match[1].index + Len(match[1].text))

\* DetectInPage, had it searched every pattern whatever patternTypes holds
DetectInPage_AllTypes(page, pageIndex, patternTypes) ==
  LET built == BuildText(page.items, <<>>, <<>>)
      every == <<"ssn", "email", "phone", "credit_card">>
  IN  Flatten([t \in 1..Len(every) |-> ExecLoop(page, pageIndex, every[t], built, 0)])

DetectInPage(page, pageIndex, patternTypes) ==
  LET built == BuildText(page.items, <<>>, <<>>)
  IN  Flatten([t \in 1..Len(patternTypes) |->
                 ExecLoop(page, pageIndex, patternTypes[t], built, 0)])

\* detectSensitivePatterns(pdfBytes, patternTypes)
DetectSensitivePatterns(doc, patternTypes) ==
  Flatten([p \in 1..Len(doc.pages) |->
             DetectInPage(doc.pages[p], p - 1, patternTypes)])

\* patternMatchesToRedactions(matches), also the map of findAndCreateRedactions
PatternMatchesToRedactions(matches) ==
  [i \in 1..Len(matches) |->
     [pageIndex |-> matches[i].pageIndex,
      x         |-> matches[i].x,
      y         |-> matches[i].y,
      width     |-> matches[i].width,
      height    |-> matches[i].height]]

\* SanitizePdf, had it left the dates of the document as they were
SanitizePdf_KeepsDates(doc, d1, d2) ==
  [pages |-> doc.pages,
   meta  |-> [title        |-> "",
              author       |-> "",
              subject      |-> "",
              keywords     |-> <<>>,
              producer     |-> "ActuallyRedactPDF - Sanitized",
              creator      |-> "ActuallyRedactPDF",
              creationDate |-> doc.meta.creationDate,
              modDate      |-> doc.meta.modDate]]

\* SanitizePdf, had it added a keyword to the ones the document has
SanitizePdf_AddsKeyword(doc, d1, d2) ==
  [pages |-> doc.pages,
   meta  |-> [title        |-> "",
              author       |-> "",
              subject      |-> "",
              keywords     |-> Append(doc.meta.keywords, "sanitized"),
              producer     |-> "ActuallyRedactPDF - Sanitized",
              creator      |-> "ActuallyRedactPDF",
              creationDate |-> d1,
              modDate      |-> d2]]

\* sanitizePdf(pdfBytes); d1 and d2 are what the two new Date() return
SanitizePdf(doc, d1, d2) ==
  [pages |-> doc.pages,
   meta  |-> [title        |-> "",
              author       |-> "",
              subject      |-> "",
              keywords     |-> <<>>,
              producer     |-> "ActuallyRedactPDF - Sanitized",
              creator      |-> "ActuallyRedactPDF",
              creationDate |-> d1,
              modDate      |-> d2]]

\* the overlap test of verifyRedaction, on an item and an area
VerifyOverlap(page, item, area) ==
  LET x == item.tx
      y == ViewportHeight(page) - item.ty
  IN  /\ x < area.x + area.width
      /\ x + OrElse(item.width, 0) > area.x
      /\ y < area.y + area.height
      /\ y + OrElse(item.height, 12) > area.y

VerifyItem(page, item, area) ==
  IF item.hasStr /\ VerifyOverlap(page, item, area) THEN <<item.str>> ELSE <<>>

\* VerifyArea, had it stopped at the first run found in the area
VerifyArea_StopsAtFirst(doc, area) ==
  IF area.pageIndex >= Len(doc.pages)
    THEN <<>>
    ELSE LET page  == doc.pages[area.pageIndex + 1]
             found == Flatten([i \in 1..Len(page.items) |->
                                 VerifyItem(page, page.items[i], area)])
         IN  IF found = <<>> THEN <<>> ELSE <<found[1]>>

\* one turn of for (const area of redactionAreas)
VerifyArea(doc, area) ==
  IF area.pageIndex >= Len(doc.pages)
    THEN <<>>
    ELSE LET page == doc.pages[area.pageIndex + 1]
         IN  Flatten([i \in 1..Len(page.items) |-> VerifyItem(page, page.items[i], area)])

\* verifyRedaction(pdfBytes, redactionAreas)
VerifyRedaction(doc, redactionAreas) ==
  LET extractedText ==
        Flatten([a \in 1..Len(redactionAreas) |-> VerifyArea(doc, redactionAreas[a])])
  IN  [success |-> extractedText = <<>>, extractedText |-> extractedText]

(***************************************************************************)
(* The strings of the checked documents.                                   *)
(***************************************************************************)
S_SSN == <<"1","2","3","-","4","5","-","6","7","8","9">>

S_MAIL == <<"a","@","b",".","c","o">>

S_CONF == <<"C","O","N","F">>

S_IDENTIAL == <<"I","D","E","N","T","I","A","L">>

S_CONFIDENTIAL == <<"C","O","N","F","I","D","E","N","T","I","A","L">>

S_Confidential == <<"C","o","n","f","i","d","e","n","t","i","a","l">>

S_conf == <<"c","o","n","f">>

S_SSN_A == <<"1","2","3","-","4","5">>

S_SSN_B == <<"6","7","8","9">>

S_CARD == <<"4","1","1","1"," ","1","1","1","1"," ","1","1","1","1"," ","1","1","1","1">>

S_123 == <<"1","2","3">>

S_AT == <<"@">>

(***************************************************************************)
(* The documents, areas, search terms and pattern lists the functions are  *)
(* applied to.                                                             *)
(***************************************************************************)
Item(str, tx, ty, width, height) ==
  [hasStr |-> TRUE, str |-> str, tx |-> tx, ty |-> ty, width |-> width, height |-> height]

\* an item of textContent.items without a str (marked content)
MarkedItem ==
  [hasStr |-> FALSE, str |-> <<>>, tx |-> 0, ty |-> 0, width |-> 0, height |-> 0]

Page(items, renderable) ==
  [width |-> 120, height |-> 100, renderable |-> renderable, items |-> items,
   raster |-> <<>>]

PagePool ==
  { Page(<<>>, TRUE),
    Page(<<Item(S_SSN, 10, 80, 60, 10), Item(S_MAIL, 10, 60, 30, 10)>>, TRUE),
    Page(<<Item(S_CONF, 10, 40, 20, 10), Item(S_IDENTIAL, 30, 40, 40, 10),
           Item(S_SSN_A, 10, 20, 30, 10), Item(S_SSN_B, 45, 20, 20, 10)>>, TRUE),
    \* a page whose text can be read and whose render() rejects
    Page(<<MarkedItem, Item(S_Confidential, 50, 90, 0, 0),
           Item(S_CARD, 10, 50, 90, 10)>>, FALSE) }

\* the metadata of a document no tool has set
PlainMeta ==
  [title |-> "", author |-> "", subject |-> "", keywords |-> <<>>,
   producer |-> "", creator |-> "", creationDate |-> 0, modDate |-> 0]

MetaPool ==
  { [title |-> "Q3 payroll", author |-> "alice", subject |-> "salaries",
     keywords |-> <<"hr", "private">>, producer |-> "Word", creator |-> "Word",
     creationDate |-> 0, modDate |-> 0],
    PlainMeta }

SeqsUpTo(S, n) == UNION {[1..k -> S] : k \in 0..n}

\* the documents; only sanitizePdf reads the metadata, and the call of it
\* chooses the metadata of the document it is given
DocPool ==
  {[pages |-> ps, meta |-> PlainMeta] : ps \in SeqsUpTo(PagePool, MaxPages) \ {<<>>}}

Rect(x, y, width, height) == [x |-> x, y |-> y, width |-> width, height |-> height]

RectPool ==
  { Rect(0, 0, 120, 100),     \* the whole page
    Rect(10, 10, 60, 14),     \* the box of the first run of the second page of PagePool
    Rect(10, 10, 60, 10) }    \* the glyphs of that run, down to its baseline

Area(pageIndex, r) ==
  [pageIndex |-> pageIndex, x |-> r.x, y |-> r.y, width |-> r.width, height |-> r.height]

\* areas on the pages of doc, and one on the page after its last one
AreaPool(doc) ==
  {Area(i, r) : i \in 0..(Len(doc.pages) - 1), r \in RectPool}
    \cup {Area(Len(doc.pages), Rect(0, 0, 120, 100))}

AreaLists(doc) == SeqsUpTo(AreaPool(doc), MaxAreas)

TermPool == {S_CONFIDENTIAL, S_conf, S_123, S_AT}

\* the arrays of pattern types without repetition, as Array.from(a Set) gives
TypeLists ==
  {ts \in SeqsUpTo(PatternTypes, Cardinality(PatternTypes)) :
     \A i, j \in 1..Len(ts) : i # j => ts[i] # ts[j]}

RenderScales == {1, 2}

(***************************************************************************)
(* The engine's functions applied to the inputs.  lib holds the document   *)
(* given, the last call (fn), the call before it (prev), its arguments     *)
(* and its result; now is the clock new Date() reads.                      *)
(***************************************************************************)
NoReport == [success |-> TRUE, extractedText |-> <<>>]

NoOutput == [ok |-> FALSE, err |-> "", pages |-> <<>>, meta |-> RedactedMeta(0)]

LibIdle(doc) ==
  [doc |-> doc, fn |-> "none", prev |-> "none", areas |-> <<>>, scale |-> 0,
   term |-> <<>>, caseSensitive |-> FALSE, types |-> <<>>, t0 |-> 0,
   out |-> NoOutput, matches |-> <<>>, report |-> NoReport]

LibInit == \E doc \in DocPool : lib = LibIdle(doc)

\* the document a call made after another one is given
LibTarget == IF lib.fn = "none" THEN lib.doc ELSE [pages |-> lib.out.pages, meta |-> lib.out.meta]

CallRedactPdfByAreas ==
  /\ lib.fn = "none"
  /\ \E areas \in AreaLists(lib.doc), renderScale \in RenderScales :
       lib' = [lib EXCEPT !.fn = "redactPdfByAreas", !.areas = areas,
                          !.scale = renderScale, !.t0 = now,
                          !.out = RedactPdfByAreas(lib.doc, areas, renderScale, now)]
  /\ UNCHANGED <<now, ed, job, run, events, batch, drawn, core, pending>>

\* verifyRedaction on the given document with any areas, or on the output
\* of redactPdfByAreas with the areas it was redacted with
CallVerifyRedaction ==
  /\ \/ lib.fn = "none"
     \/ lib.fn = "redactPdfByAreas" /\ lib.out.ok
  /\ \E areas \in (IF lib.fn = "none" THEN AreaLists(lib.doc) ELSE {lib.areas}) :
       lib' = [lib EXCEPT !.fn = "verifyRedaction", !.prev = lib.fn, !.areas = areas,
                          !.report = VerifyRedaction(LibTarget, areas)]
  /\ UNCHANGED <<now, ed, job, run, events, batch, drawn, core, pending>>

CallFindTextInPdf ==
  /\ lib.fn = "none"
  /\ \E searchTerm \in TermPool, caseSensitive \in BOOLEAN :
       lib' = [lib EXCEPT !.fn = "findTextInPdf", !.term = searchTerm,
                          !.caseSensitive = caseSensitive,
                          !.matches = FindTextInPdf(lib.doc, searchTerm, caseSensitive)]
  /\ UNCHANGED <<now, ed, job, run, events, batch, drawn, core, pending>>

CallDetectSensitivePatterns ==
  /\ lib.fn = "none"
  /\ \E patternTypes \in TypeLists :
       lib' = [lib EXCEPT !.fn = "detectSensitivePatterns", !.types = patternTypes,
                          !.matches = DetectSensitivePatterns(lib.doc, patternTypes)]
  /\ UNCHANGED <<now, ed, job, run, events, batch, drawn, core, pending>>

\* sanitizePdf on a given document, whatever its metadata, or on its own
\* output; the clock may tick before each new Date()
CallSanitizePdf ==
  /\ \/ lib.fn = "none"
     \/ lib.fn = "sanitizePdf" /\ lib.prev # "sanitizePdf"
  /\ \E meta \in (IF lib.fn = "none" THEN MetaPool ELSE {lib.out.meta}),
        d1 \in now..(now + 1), d2 \in now..(now + 2) :
       /\ d1 <= d2
       /\ d2 <= d1 + 1
       /\ d2 <= MaxClock
       /\ LET given     == IF lib.fn = "none"
                              THEN [lib.doc EXCEPT !.meta = meta]
                              ELSE LibTarget
              sanitized == SanitizePdf(given, d1, d2)
          IN  lib' = [lib EXCEPT !.fn = "sanitizePdf", !.prev = lib.fn, !.t0 = now,
                                 !.doc = given,
                                 !.out = [ok |-> TRUE, err |-> "",
                                          pages |-> sanitized.pages,
                                          meta |-> sanitized.meta]]
       /\ now' = d2
  /\ UNCHANGED <<ed, job, run, events, batch, drawn, core, pending>>

(***************************************************************************)
(* Calls of detectSensitivePatterns and findTextInPdf in flight at the     *)
(* same time.  Each call awaits the pages one by one, and what it does     *)
(* with a page between two awaits is one step.  core holds what the        *)
(* module shares between the calls, the lastIndex of the regular           *)
(* expressions of PATTERNS, and for each call what the call owns: its      *)
(* arguments, the page it is at and its matches.                           *)
(***************************************************************************)
\* the calls in flight at most
MaxCalls == 2

NoCalls == [lastIndex |-> [t \in PatternTypes |-> 0], calls |-> <<>>]

\* the documents, pattern types and search terms of the calls
CoreDocPool ==
  LET ssn   == Page(<<Item(S_SSN, 10, 80, 60, 10), Item(S_MAIL, 10, 60, 30, 10)>>, TRUE)
      split == Page(<<Item(S_SSN_A, 10, 20, 30, 10), Item(S_SSN_B, 45, 20, 20, 10)>>, TRUE)
  IN  { [pages |-> <<ssn>>, meta |-> PlainMeta],
        [pages |-> <<split, ssn>>, meta |-> PlainMeta],
        [pages |-> <<Page(<<>>, TRUE), split>>, meta |-> PlainMeta] }

CoreTypePool == {<<"ssn">>, <<"email", "ssn">>}

CoreTermPool == {S_123}

NewCall(fn, doc, patternTypes, searchTerm, caseSensitive) ==
  [fn |-> fn, doc |-> doc, patternTypes |-> patternTypes, searchTerm |-> searchTerm,
   caseSensitive |-> caseSensitive, pageNum |-> 1, matches |-> <<>>, done |-> FALSE]

\* detectSensitivePatterns(pdfBytes, patternTypes) up to its first await
StartDetectSensitivePatterns ==
  /\ Len(core.calls) < MaxCalls
  /\ \E doc \in CoreDocPool, patternTypes \in CoreTypePool :
       core' = [core EXCEPT !.calls =
                  Append(@, NewCall("detectSensitivePatterns", doc, patternTypes,
                                    <<>>, FALSE))]
  /\ UNCHANGED <<lib, now, ed, job, run, events, batch, drawn, pending>>

\* findTextInPdf(pdfBytes, searchTerm, caseSensitive) up to its first await
StartFindTextInPdf ==
  /\ Len(core.calls) < MaxCalls
  /\ \E doc \in CoreDocPool, searchTerm \in CoreTermPool, caseSensitive \in BOOLEAN :
       core' = [core EXCEPT !.calls =
                  Append(@, NewCall("findTextInPdf", doc, <<>>, searchTerm,
                                    caseSensitive))]
  /\ UNCHANGED <<lib, now, ed, job, run, events, batch, drawn, pending>>

\* PushMatches, had matches been one array of the module
PushMatches_SharedArray(calls, c, found) ==
  [i \in 1..Len(calls) |->
     IF calls[i].fn = calls[c].fn
       THEN [calls[i] EXCEPT !.matches = @ \o found]
       ELSE calls[i]]

\* matches.push(...) of call c: matches is a const of the call
PushMatches(calls, c, found) ==
  [calls EXCEPT ![c].matches = @ \o found]

\* call c after the page it is at: the next page, or the return
AfterPage(calls, c) ==
  [calls EXCEPT ![c].pageNum = @ + 1,
                ![c].done = (calls[c].pageNum = Len(calls[c].doc.pages))]

\* one turn of the page loop of a detectSensitivePatterns call.  The
\* regular expressions it runs are its own, new RegExp(PATTERNS[t].source,
\* 'g') with lastIndex 0, so those of PATTERNS keep their lastIndex
DetectPageTurn ==
  /\ \E c \in 1..Len(core.calls) :
       LET call == core.calls[c]
       IN  /\ call.fn = "detectSensitivePatterns"
           /\ ~call.done
           /\ core' = [core EXCEPT !.calls =
                         AfterPage(PushMatches(core.calls, c,
                                               DetectInPage(call.doc.pages[call.pageNum],
                                                            call.pageNum - 1,
                                                            call.patternTypes)),
                                   c)]
  /\ UNCHANGED <<lib, now, ed, job, run, events, batch, drawn, pending>>

\* one turn of the page loop of a findTextInPdf call
FindPageTurn ==
  /\ \E c \in 1..Len(core.calls) :
       LET call            == core.calls[c]
           searchTermLower == IF call.caseSensitive THEN call.searchTerm
                                                    ELSE ToLowerCase(call.searchTerm)
       IN  /\ call.fn = "findTextInPdf"
           /\ ~call.done
           /\ core' = [core EXCEPT !.calls =
                         AfterPage(PushMatches(core.calls, c,
                                               FindInPage(call.doc.pages[call.pageNum],
                                                          call.pageNum - 1,
                                                          searchTermLower,
                                                          call.caseSensitive)),
                                   c)]
  /\ UNCHANGED <<lib, now, ed, job, run, events, batch, drawn, pending>>

(***************************************************************************)
(* components/PDFEditor.tsx.  ed is the component's state; a null is the   *)
(* empty sequence and a value v is <<v>>.  zoom is held in quarters        *)
(* (4 is zoom 1).  The boxes of ed.redactions are in canvas units, 1.5     *)
(* times the page units; the checked coordinates are those for which the   *)
(* products and quotients by 1.5 and by zoom are whole.  job is the        *)
(* applyRedactions call that awaits the engine, with the pdfBytes and      *)
(* redactions its closure holds; run records the last applyRedactions      *)
(* call: the engine functions it called, the report it got and the file    *)
(* it handed to downloadPdf.                                               *)
(***************************************************************************)
\* v * 1.5
Times15(v) == (v * 3) \div 2

\* v / 1.5
Div15(v) == (v * 2) \div 3

DefaultPatterns == <<"ssn", "email", "phone", "credit_card">>

EdInit ==
  [pdfFile |-> <<>>, pdfBytes |-> <<>>, currentPage |-> 1, totalPages |-> 0,
   zoom |-> 4, tool |-> "redact", redactions |-> <<>>, nextId |-> 1,
   isDrawing |-> FALSE, drawStart |-> <<>>, currentBox |-> <<>>,
   isProcessing |-> FALSE, showSuccess |-> FALSE, verificationResult |-> <<>>,
   searchTerm |-> <<>>, searchResults |-> <<>>, isSearching |-> FALSE,
   patternResults |-> <<>>, selectedPatterns |-> DefaultPatterns,
   isDetecting |-> FALSE]

\* pending holds the handleSearch and the handleDetectPatterns call that
\* await the engine, each with the pdfBytes and the searchTerm or
\* selectedPatterns its closure holds
NonePending == [search |-> <<>>, detect |-> <<>>]

NoRun == [phase |-> "none", calls |-> <<>>, input |-> <<>>, areas |-> <<>>,
          report |-> <<>>, delivered |-> <<>>]

\* the documents dropped on the editor
EdDocPool ==
  LET ssn   == Page(<<Item(S_SSN, 10, 80, 60, 10), Item(S_MAIL, 10, 60, 30, 10),
                      Item(S_123, 100, 8, 6, 4)>>, TRUE)    \* a note in small print
      bad   == Page(<<Item(S_CONFIDENTIAL, 10, 80, 60, 10)>>, FALSE)
  IN  { [pages |-> <<ssn>>, meta |-> PlainMeta],
        [pages |-> <<ssn, bad>>, meta |-> PlainMeta] }

\* the search terms typed
EdTermPool == {<<>>, S_123, S_CONFIDENTIAL}

\* the points of the page, in page units from its top left corner, the mouse
\* is pressed, moved and released over
PagePointPool == {[x |-> 32, y |-> 32], [x |-> 96, y |-> 64], [x |-> 32, y |-> 64]}

\* drawn holds the page points of the press and of the last move of the
\* drag in progress, and those of each box that handleMouseUp admitted
NoneDrawn == [from |-> <<>>, to |-> <<>>, boxes |-> <<>>]

\* the pattern buttons clicked
TogglePool == {"ssn", "email"}

RECURSIVE TrimStart(_)
TrimStart(s) == IF s # <<>> /\ Head(s) \in SpaceChar THEN TrimStart(Tail(s)) ELSE s

RECURSIVE TrimEnd(_)
TrimEnd(s) ==
  IF s # <<>> /\ s[Len(s)] \in SpaceChar THEN TrimEnd(SubSeq(s, 1, Len(s) - 1)) ELSE s

\* String.prototype.trim
Trim(s) == TrimEnd(TrimStart(s))

Loaded == ed.pdfFile # <<>>

\* one more event of the user in the session
UserEvent == events < MaxEvents /\ events' = events + 1

\* onDrop(acceptedFiles): the drop zone is shown while no file is loaded
OnDrop ==
  /\ ~Loaded
  /\ \E doc \in EdDocPool :
       ed' = [ed EXCEPT !.pdfFile = <<"document.pdf">>,
                        !.pdfBytes = <<doc>>,
                        !.totalPages = Len(doc.pages),
                        !.currentPage = 1,
                        !.redactions = <<>>,
                        !.searchResults = <<>>,
                        !.patternResults = <<>>,
                        !.verificationResult = <<>>]
  /\ UserEvent
  /\ UNCHANGED <<lib, now, job, run, batch, drawn, core, pending>>

\* the New File button
NewFile ==
  /\ Loaded
  /\ ed' = [ed EXCEPT !.pdfFile = <<>>,
                      !.pdfBytes = <<>>,
                      !.redactions = <<>>,
                      !.searchResults = <<>>,
                      !.patternResults = <<>>,
                      !.verificationResult = <<>>]
  /\ UserEvent
  /\ UNCHANGED <<lib, now, job, run, batch, drawn, core, pending>>

SetTool ==
  /\ Loaded
  /\ \E t \in {"select", "redact"} :
       /\ t # ed.tool
       /\ ed' = [ed EXCEPT !.tool = t]
  /\ UserEvent
  /\ UNCHANGED <<lib, now, job, run, batch, drawn, core, pending>>

\* setZoom(Math.max(0.5, zoom - 0.25))
ZoomOut ==
  /\ Loaded
  /\ ed' = [ed EXCEPT !.zoom = IF ed.zoom - 1 < 2 THEN 2 ELSE ed.zoom - 1]
  /\ UserEvent
  /\ UNCHANGED <<lib, now, job, run, batch, drawn, core, pending>>

\* setZoom(Math.min(2, zoom + 0.25))
ZoomIn ==
  /\ Loaded
  /\ ed' = [ed EXCEPT !.zoom = IF ed.zoom + 1 > 8 THEN 8 ELSE ed.zoom + 1]
  /\ UserEvent
  /\ UNCHANGED <<lib, now, job, run, batch, drawn, core, pending>>

\* the page buttons, each disabled at its end of the document
PrevPage ==
  /\ Loaded
  /\ ed.currentPage > 1
  /\ ed' = [ed EXCEPT !.currentPage = IF ed.currentPage - 1 < 1 THEN 1 ELSE ed.currentPage - 1]
  /\ UserEvent
  /\ UNCHANGED <<lib, now, job, run, batch, drawn, core, pending>>

NextPage ==
  /\ Loaded
  /\ ed.currentPage < ed.totalPages
  /\ ed' = [ed EXCEPT !.currentPage =
                        IF ed.currentPage + 1 > ed.totalPages
                          THEN ed.totalPages ELSE ed.currentPage + 1]
  /\ UserEvent
  /\ UNCHANGED <<lib, now, job, run, batch, drawn, core, pending>>

\* onChange of the search box
SetSearchTerm ==
  /\ Loaded
  /\ \E t \in EdTermPool :
       /\ t # ed.searchTerm
       /\ ed' = [ed EXCEPT !.searchTerm = t]
  /\ UserEvent
  /\ UNCHANGED <<lib, now, job, run, batch, drawn, core, pending>>

\* handleSearch() up to its await; the button is disabled while isSearching
HandleSearchStart ==
  /\ Loaded
  /\ ~ed.isSearching
  /\ ed.pdfBytes # <<>>
  /\ Trim(ed.searchTerm) # <<>>
  /\ ed' = [ed EXCEPT !.isSearching = TRUE]
  /\ pending' = [pending EXCEPT !.search = <<[pdfBytes   |-> ed.pdfBytes[1],
                                              searchTerm |-> ed.searchTerm]>>]
  /\ UserEvent
  /\ UNCHANGED <<lib, now, job, run, batch, drawn, core>>

\* handleSearch() from the end of its await on
HandleSearchFinish ==
  /\ pending.search # <<>>
  /\ ed' = [ed EXCEPT !.searchResults =
                        FindTextInPdf(pending.search[1].pdfBytes,
                                      Trim(pending.search[1].searchTerm), FALSE),
                      !.isSearching = FALSE]
  /\ pending' = [pending EXCEPT !.search = <<>>]
  /\ UNCHANGED <<lib, now, job, run, events, batch, drawn, core>>

\* ScaledBoxes, had it made a box of the first match of each page only
ScaledBoxes_OnePerPage(matches, firstId, source) ==
  LET first == SelectSeq([i \in 1..Len(matches) |-> i],
                         LAMBDA i : \A j \in 1..(i - 1) :
                                      matches[j].pageIndex # matches[i].pageIndex)
  IN  [k \in 1..Len(first) |->
         [id        |-> firstId + k - 1,
          pageIndex |-> matches[first[k]].pageIndex,
          x         |-> Times15(matches[first[k]].x),
          y         |-> Times15(matches[first[k]].y),
          width     |-> Times15(matches[first[k]].width),
          height    |-> Times15(matches[first[k]].height),
          source    |-> source]]

\* the boxes addSearchResultsAsRedactions and addPatternResultsAsRedactions
\* make of matches, with ids from firstId on
ScaledBoxes(matches, firstId, source) ==
  [i \in 1..Len(matches) |->
     [id        |-> firstId + i - 1,
      pageIndex |-> matches[i].pageIndex,
      x         |-> Times15(matches[i].x),
      y         |-> Times15(matches[i].y),
      width     |-> Times15(matches[i].width),
      height    |-> Times15(matches[i].height),
      source    |-> source]]

\* addSearchResultsAsRedactions(), the button shown when there are results
AddSearchResultsAsRedactions ==
  /\ Loaded
  /\ ed.searchResults # <<>>
  /\ ed.nextId + Len(ed.searchResults) - 1 <= MaxIds
  /\ ed' = [ed EXCEPT !.redactions =
                        ed.redactions \o ScaledBoxes(ed.searchResults, ed.nextId, "search"),
                      !.nextId = ed.nextId + Len(ed.searchResults),
                      !.searchResults = <<>>,
                      !.searchTerm = <<>>]
  /\ UserEvent
  /\ UNCHANGED <<lib, now, job, run, batch, drawn, core, pending>>

\* togglePattern(pattern) on a Set, which keeps insertion order
TogglePattern ==
  /\ Loaded
  /\ \E pattern \in TogglePool :
       ed' = [ed EXCEPT !.selectedPatterns =
                          IF pattern \in Range(ed.selectedPatterns)
                            THEN SelectSeq(ed.selectedPatterns, LAMBDA t : t # pattern)
                            ELSE Append(ed.selectedPatterns, pattern)]
  /\ UserEvent
  /\ UNCHANGED <<lib, now, job, run, batch, drawn, core, pending>>

\* handleDetectPatterns() up to its await, its button disabled while
\* isDetecting and when no pattern is selected
HandleDetectPatternsStart ==
  /\ Loaded
  /\ ~ed.isDetecting
  /\ ed.pdfBytes # <<>>
  /\ ed.selectedPatterns # <<>>
  /\ ed' = [ed EXCEPT !.isDetecting = TRUE]
  /\ pending' = [pending EXCEPT !.detect = <<[pdfBytes |-> ed.pdfBytes[1],
                                              patterns |-> ed.selectedPatterns]>>]
  /\ UserEvent
  /\ UNCHANGED <<lib, now, job, run, batch, drawn, core>>

\* handleDetectPatterns() from the end of its await on
HandleDetectPatternsFinish ==
  /\ pending.detect # <<>>
  /\ ed' = [ed EXCEPT !.patternResults =
                        DetectSensitivePatterns(pending.detect[1].pdfBytes,
                                                pending.detect[1].patterns),
                      !.isDetecting = FALSE]
  /\ pending' = [pending EXCEPT !.detect = <<>>]
  /\ UNCHANGED <<lib, now, job, run, events, batch, drawn, core>>

\* addPatternResultsAsRedactions(), the button shown when there are results
AddPatternResultsAsRedactions ==
  /\ Loaded
  /\ ed.patternResults # <<>>
  /\ ed.nextId + Len(ed.patternResults) - 1 <= MaxIds
  /\ ed' = [ed EXCEPT !.redactions =
                        ed.redactions
                          \o ScaledBoxes(PatternMatchesToRedactions(ed.patternResults),
                                         ed.nextId, "pattern"),
                      !.nextId = ed.nextId + Len(ed.patternResults),
                      !.patternResults = <<>>]
  /\ UserEvent
  /\ UNCHANGED <<lib, now, job, run, batch, drawn, core, pending>>

\* the place in the canvas, and so in the container, of the page coordinate
\* p when the page is rendered with getViewport({ scale: zoom * 1.5 })
DisplayedAt(p, zoom) == (p * 3 * zoom) \div 8

\* e.clientX - rect.left of a press at container point c: the container is
\* shown scaled by zoom
ClientOffset(c, zoom) == (c * zoom) \div 4

\* (e.clientX - rect.left) / zoom
MouseCoord(offset, zoom) == (offset * 4) \div zoom

\* handleMouseDown(e)
HandleMouseDown ==
  /\ Loaded
  /\ ed.tool = "redact"
  /\ \E pt \in PagePointPool :
       LET x == MouseCoord(ClientOffset(DisplayedAt(pt.x, ed.zoom), ed.zoom), ed.zoom)
           y == MouseCoord(ClientOffset(DisplayedAt(pt.y, ed.zoom), ed.zoom), ed.zoom)
       IN  /\ ed' = [ed EXCEPT !.isDrawing = TRUE,
                               !.drawStart = <<[x |-> x, y |-> y]>>,
                               !.currentBox = <<[x |-> x, y |-> y, width |-> 0, height |-> 0]>>]
           /\ drawn' = [drawn EXCEPT !.from = <<pt>>, !.to = <<pt>>]
  /\ UserEvent
  /\ UNCHANGED <<lib, now, job, run, batch, core, pending>>

Abs(v) == IF v < 0 THEN -v ELSE v

\* handleMouseMove(e)
HandleMouseMove ==
  /\ Loaded
  /\ ed.isDrawing
  /\ ed.drawStart # <<>>
  /\ \E pt \in PagePointPool :
       LET x == MouseCoord(ClientOffset(DisplayedAt(pt.x, ed.zoom), ed.zoom), ed.zoom)
           y == MouseCoord(ClientOffset(DisplayedAt(pt.y, ed.zoom), ed.zoom), ed.zoom)
           s == ed.drawStart[1]
       IN  /\ ed' = [ed EXCEPT !.currentBox =
                                 <<[x      |-> IF s.x < x THEN s.x ELSE x,
                                    y      |-> IF s.y < y THEN s.y ELSE y,
                                    width  |-> Abs(x - s.x),
                                    height |-> Abs(y - s.y)]>>]
           /\ drawn' = [drawn EXCEPT !.to = <<pt>>]
  /\ UserEvent
  /\ UNCHANGED <<lib, now, job, run, batch, core, pending>>

\* handleMouseUp(), also the handler of mouseleave
HandleMouseUp ==
  /\ Loaded
  /\ ed.isDrawing
  /\ ed.currentBox # <<>>
  /\ LET box   == ed.currentBox[1]
         admit == box.width > 10 /\ box.height > 10
     IN  /\ admit => ed.nextId <= MaxIds
         /\ ed' = [ed EXCEPT !.redactions =
                               IF admit
                                 THEN Append(ed.redactions,
                                             [id        |-> ed.nextId,
                                              pageIndex |-> ed.currentPage - 1,
                                              x         |-> box.x,
                                              y         |-> box.y,
                                              width     |-> box.width,
                                              height    |-> box.height,
                                              source    |-> "manual"])
                                 ELSE ed.redactions,
                             !.nextId = IF admit THEN ed.nextId + 1 ELSE ed.nextId,
                             !.isDrawing = FALSE,
                             !.drawStart = <<>>,
                             !.currentBox = <<>>]
         /\ drawn' = [from  |-> <<>>,
                      to    |-> <<>>,
                      boxes |-> IF admit /\ drawn.from # <<>>
                                  THEN Append(drawn.boxes,
                                              [id   |-> ed.nextId,
                                               from |-> drawn.from[1],
                                               to   |-> drawn.to[1]])
                                  ELSE drawn.boxes]
  /\ UserEvent
  /\ UNCHANGED <<lib, now, job, run, batch, core, pending>>

\* removeRedaction(id)
RemoveRedaction ==
  /\ Loaded
  /\ \E k \in 1..Len(ed.redactions) :
       ed' = [ed EXCEPT !.redactions =
                          SelectSeq(ed.redactions, LAMBDA r : r.id # ed.redactions[k].id)]
  /\ UserEvent
  /\ UNCHANGED <<lib, now, job, run, batch, drawn, core, pending>>

\* clearAllRedactions(), the button shown when there are redactions
ClearAllRedactions ==
  /\ Loaded
  /\ ed.redactions # <<>>
  /\ ed' = [ed EXCEPT !.redactions = <<>>]
  /\ UserEvent
  /\ UNCHANGED <<lib, now, job, run, batch, drawn, core, pending>>

\* const pdfScaleRedactions = redactions.map(...)
PdfScaleRedactions(redactions) ==
  [i \in 1..Len(redactions) |->
     [redactions[i] EXCEPT !.x = Div15(redactions[i].x),
                           !.y = Div15(redactions[i].y),
                           !.width = Div15(redactions[i].width),
                           !.height = Div15(redactions[i].height)]]

\* applyRedactions() up to its first await; the button is disabled while
\* isProcessing
ApplyRedactionsStart ==
  /\ Loaded
  /\ ~ed.isProcessing
  /\ job = <<>>
  /\ ed.pdfBytes # <<>>
  /\ ed.redactions # <<>>
  /\ ed' = [ed EXCEPT !.isProcessing = TRUE, !.verificationResult = <<>>]
  /\ job' = <<[pdfBytes |-> ed.pdfBytes[1], redactions |-> ed.redactions]>>
  /\ run' = [NoRun EXCEPT !.phase = "running"]
  /\ UserEvent
  /\ UNCHANGED <<lib, now, batch, drawn, core, pending>>

\* what the try block of applyRedactions does with the result of
\* redactPdfByAreas: the verification result it sets, and whether it
\* reaches downloadPdf and setShowSuccess(true)
ApplyOutcome(redactedPdf, pdfScaleRedactions) ==
  IF ~redactedPdf.ok
    THEN [calls      |-> <<"redactPdfByAreas">>,
          report     |-> <<>>,
          delivered  |-> <<>>,
          shown      |-> [success |-> FALSE,
                          message |-> "Redaction failed. Please try again.",
                          count   |-> 0],
          toast      |-> FALSE]
    ELSE LET out          == [pages |-> redactedPdf.pages, meta |-> redactedPdf.meta]
             verification == VerifyRedaction(out, pdfScaleRedactions)
         IN  [calls      |-> <<"redactPdfByAreas", "verifyRedaction", "downloadPdf">>,
              report     |-> <<verification>>,
              delivered  |-> <<out>>,
              shown      |-> IF verification.success
                               THEN [success |-> TRUE,
                                     message |-> "Verified: No extractable text found in redacted areas",
                                     count   |-> 0]
                               ELSE [success |-> FALSE,
                                     message |-> "Warning: Found N text fragments. Re-processing...",
                                     count   |-> Len(verification.extractedText)],
              toast      |-> TRUE]

\* applyRedactions() from the call of redactPdfByAreas to its finally
ApplyRedactionsFinish ==
  /\ job # <<>>
  /\ LET pdfScaleRedactions == PdfScaleRedactions(job[1].redactions)
         redactedPdf        == RedactPdfByAreas(job[1].pdfBytes, pdfScaleRedactions, 2, now)
         o                  == ApplyOutcome(redactedPdf, pdfScaleRedactions)
     IN  /\ ed' = [ed EXCEPT !.verificationResult = <<o.shown>>,
                             !.showSuccess = IF o.toast THEN TRUE ELSE ed.showSuccess,
                             !.isProcessing = FALSE]
         /\ run' = [phase     |-> IF redactedPdf.ok THEN "done" ELSE "failed",
                    calls     |-> o.calls,
                    input     |-> <<job[1].pdfBytes>>,
                    areas     |-> pdfScaleRedactions,
                    report    |-> o.report,
                    delivered |-> o.delivered]
  /\ job' = <<>>
  /\ UNCHANGED <<lib, now, events, batch, drawn, core, pending>>

\* setTimeout(() => setShowSuccess(false), 4000)
ToastTimeout ==
  /\ ed.showSuccess
  /\ ed' = [ed EXCEPT !.showSuccess = FALSE]
  /\ UNCHANGED <<lib, now, job, run, events, batch, drawn, core, pending>>

(***************************************************************************)
(* components/BatchProcessor.tsx.  batch is the component's state, with    *)
(* the calls of scanAllFiles and processAllFiles that await the engine     *)
(* (scan, proc: the files and patterns their closure holds, the file they  *)
(* are at, the results so far) and what downloadAll handed to the browser. *)
(* A file name is a text.                                                  *)
(***************************************************************************)
\* maxFiles of useDropzone
MaxFiles == 10

BatchInit ==
  [files |-> <<>>, selectedPatterns |-> DefaultPatterns, isScanning |-> FALSE,
   isProcessing |-> FALSE, processedFiles |-> <<>>, nextId |-> 1,
   scan |-> <<>>, proc |-> <<>>, downloaded |-> <<>>]

N_A == <<"a", ".", "p", "d", "f">>

N_B == <<"b", ".", "p", "d", "f">>

N_C == <<"c", ".", "p", "d", "f">>

N_D == <<"d", ".", "p", "d", "f">>

N_NOTE == <<"n", ".", "t", "x", "t">>

S_DOTPDF == <<".", "p", "d", "f">>

S_REDACTED == <<"-", "r", "e", "d", "a", "c", "t", "e", "d", ".", "p", "d", "f">>

\* the files dropped on the batch processor; d is a document that opens and
\* whose page.getTextContent() rejects (noText)
BatchFilePool ==
  LET blank == Page(<<>>, TRUE)
      ssn   == Page(<<Item(S_SSN, 10, 80, 60, 10), Item(S_MAIL, 10, 60, 30, 10)>>, TRUE)
      bad   == Page(<<Item(S_SSN, 10, 80, 60, 10)>>, FALSE)
  IN  [a    |-> [name |-> N_A, type |-> "application/pdf",
                 doc |-> [pages |-> <<ssn>>, meta |-> PlainMeta]],
       b    |-> [name |-> N_B, type |-> "application/pdf",
                 doc |-> [pages |-> <<bad, blank>>, meta |-> PlainMeta]],
       c    |-> [name |-> N_C, type |-> "application/pdf",
                 doc |-> [pages |-> <<blank>>, meta |-> PlainMeta]],
       d    |-> [name |-> N_D, type |-> "application/pdf",
                 doc |-> [pages |-> <<ssn>>, meta |-> PlainMeta, noText |-> TRUE]],
       note |-> [name |-> N_NOTE, type |-> "text/plain",
                 doc |-> [pages |-> <<blank>>, meta |-> PlainMeta]]]

\* the drops made: one file, two files, a file that is no PDF among them,
\* as many files as maxFiles, and one more than that
DropPool ==
  { <<BatchFilePool.a>>,
    <<BatchFilePool.b, BatchFilePool.a>>,
    <<BatchFilePool.note, BatchFilePool.d, BatchFilePool.a>>,
    [i \in 1..MaxFiles |-> BatchFilePool.c],
    [i \in 1..(MaxFiles + 1) |-> BatchFilePool.c] }

\* the pattern buttons clicked
BatchTogglePool == {"ssn"}

\* acceptedFiles of a drop: the files of an accepted type, or none of them
\* when they are more than maxFiles
AcceptedFiles(dropped) ==
  LET ofType == SelectSeq(dropped, LAMBDA f : f.type = "application/pdf")
  IN  IF Len(ofType) > MaxFiles THEN <<>> ELSE ofType

\* one more event of the user in the session
BatchEvent == events < MaxBatchEvents /\ events' = events + 1

\* BatchProcessor.onDrop(acceptedFiles)
BatchOnDrop ==
  /\ \E dropped \in DropPool :
       LET acceptedFiles == AcceptedFiles(dropped)
           pdfFiles      == SelectSeq(acceptedFiles, LAMBDA f : f.type = "application/pdf")
           newFiles      == [i \in 1..Len(pdfFiles) |->
                               [id        |-> batch.nextId + i - 1,
                                name      |-> pdfFiles[i].name,
                                bytes     |-> pdfFiles[i].doc,
                                pageCount |-> Len(pdfFiles[i].doc.pages),
                                status    |-> "pending",
                                patterns  |-> <<>>,
                                error     |-> ""]]
       IN  /\ acceptedFiles # <<>>
           /\ Len(batch.files) + Len(newFiles) <= MaxBatch
           /\ batch' = [batch EXCEPT !.files = batch.files \o newFiles,
                                     !.nextId = batch.nextId + Len(newFiles)]
  /\ BatchEvent
  /\ UNCHANGED <<lib, now, ed, job, run, drawn, core, pending>>

\* BatchProcessor.removeFile(id), of the first or the last file of the list
BatchRemoveFile ==
  /\ batch.files # <<>>
  /\ \E k \in {1, Len(batch.files)} :
       batch' = [batch EXCEPT !.files =
                                SelectSeq(batch.files, LAMBDA f : f.id # batch.files[k].id)]
  /\ BatchEvent
  /\ UNCHANGED <<lib, now, ed, job, run, drawn, core, pending>>

\* BatchProcessor.clearAll(), the button shown when there are files
BatchClearAll ==
  /\ batch.files # <<>>
  /\ batch' = [batch EXCEPT !.files = <<>>, !.processedFiles = <<>>]
  /\ BatchEvent
  /\ UNCHANGED <<lib, now, ed, job, run, drawn, core, pending>>

\* BatchProcessor.togglePattern(pattern), the buttons shown when there are files
BatchTogglePattern ==
  /\ batch.files # <<>>
  /\ \E pattern \in BatchTogglePool :
       batch' = [batch EXCEPT !.selectedPatterns =
                                IF pattern \in Range(batch.selectedPatterns)
                                  THEN SelectSeq(batch.selectedPatterns, LAMBDA t : t # pattern)
                                  ELSE Append(batch.selectedPatterns, pattern)]
  /\ BatchEvent
  /\ UNCHANGED <<lib, now, ed, job, run, drawn, core, pending>>

\* setFiles(prev => prev.map(f => f.id === id ? { ...f, ...fields } : f))
MapFile(files, id, fields) ==
  [i \in 1..Len(files) |->
     IF files[i].id = id
       THEN [k \in DOMAIN files[i] |->
               IF k \in DOMAIN fields THEN fields[k] ELSE files[i][k]]
       ELSE files[i]]

\* files.reduce((sum, f) => sum + f.patterns.length, 0)
RECURSIVE TotalPatterns(_)
TotalPatterns(files) ==
  IF files = <<>> THEN 0 ELSE Len(Head(files).patterns) + TotalPatterns(Tail(files))

ScannedFiles(files) == Len(SelectSeq(files, LAMBDA f : f.status \in {"scanned", "done"}))

DoneFiles(files) == Len(SelectSeq(files, LAMBDA f : f.status = "done"))

\* scanAllFiles() up to its first await
ScanAllFilesStart ==
  /\ batch.files # <<>>
  /\ ScannedFiles(batch.files) < Len(batch.files)
  /\ ~batch.isScanning
  /\ batch.selectedPatterns # <<>>
  /\ batch' = [batch EXCEPT
                 !.isScanning = TRUE,
                 !.files = MapFile(batch.files, batch.files[1].id,
                                   [status |-> "scanning"]),
                 !.scan = <<[files |-> batch.files, patterns |-> batch.selectedPatterns,
                             i |-> 1]>>]
  /\ BatchEvent
  /\ UNCHANGED <<lib, now, ed, job, run, drawn, core, pending>>

\* detectSensitivePatterns(file.bytes, patterns) resolves
Extractable(doc) == "noText" \notin DOMAIN doc

\* ScanTurn, had scanAllFiles no try and catch around its await: the
\* rejection ends the call where it is
ScanTurn_Uncaught(b) ==
  LET sc      == b.scan[1]
      file    == sc.files[sc.i]
      scanned == MapFile(b.files, file.id,
                         [status   |-> "scanned",
                          patterns |-> DetectSensitivePatterns(file.bytes, sc.patterns)])
  IN  IF ~Extractable(file.bytes)
        THEN [b EXCEPT !.scan = <<>>]
        ELSE IF sc.i < Len(sc.files)
          THEN [b EXCEPT !.files = MapFile(scanned, sc.files[sc.i + 1].id,
                                           [status |-> "scanning"]),
                         !.scan = <<[sc EXCEPT !.i = sc.i + 1]>>]
          ELSE [b EXCEPT !.files = scanned, !.scan = <<>>, !.isScanning = FALSE]

\* the batch after one turn of the loop of scanAllFiles, from the end of
\* one await to the next one or to the end of the call
ScanTurn(b) ==
  LET sc      == b.scan[1]
      file    == sc.files[sc.i]
      settled == IF Extractable(file.bytes)
                   THEN MapFile(b.files, file.id,
                                [status   |-> "scanned",
                                 patterns |-> DetectSensitivePatterns(file.bytes,
                                                                      sc.patterns)])
                   ELSE MapFile(b.files, file.id,
                                [status |-> "error", error |-> "Scan failed"])
  IN  IF sc.i < Len(sc.files)
        THEN [b EXCEPT !.files = MapFile(settled, sc.files[sc.i + 1].id,
                                         [status |-> "scanning"]),
                       !.scan = <<[sc EXCEPT !.i = sc.i + 1]>>]
        ELSE [b EXCEPT !.files = settled, !.scan = <<>>, !.isScanning = FALSE]

\* scanAllFiles() from the end of one await to the next one, or to its end
ScanAllFilesStep ==
  /\ batch.scan # <<>>
  /\ batch' = ScanTurn(batch)
  /\ UNCHANGED <<lib, now, ed, job, run, events, drawn, core, pending>>

RECURSIVE ReplaceFirst(_, _, _)
\* String.prototype.replace(pattern, replacement) with a string pattern
ReplaceFirst(s, pattern, replacement) ==
  IF Len(s) < Len(pattern)
    THEN s
    ELSE IF SubSeq(s, 1, Len(pattern)) = pattern
      THEN replacement \o SubSeq(s, Len(pattern) + 1, Len(s))
      ELSE <<Head(s)>> \o ReplaceFirst(Tail(s), pattern, replacement)

\* const filesToProcess = files.filter(...)
FilesToProcess(files) ==
  SelectSeq(files, LAMBDA f : f.status = "scanned" /\ Len(f.patterns) > 0)

\* processAllFiles() up to its first await
ProcessAllFilesStart ==
  /\ batch.files # <<>>
  /\ ScannedFiles(batch.files) > 0
  /\ DoneFiles(batch.files) < ScannedFiles(batch.files)
  /\ TotalPatterns(batch.files) > 0
  /\ ~batch.isProcessing
  /\ FilesToProcess(batch.files) # <<>>
  /\ LET filesToProcess == FilesToProcess(batch.files)
     IN  batch' = [batch EXCEPT
                     !.isProcessing = TRUE,
                     !.files = MapFile(batch.files, filesToProcess[1].id,
                                       [status |-> "processing"]),
                     !.proc = <<[files |-> filesToProcess, i |-> 1, results |-> <<>>]>>]
  /\ BatchEvent
  /\ UNCHANGED <<lib, now, ed, job, run, drawn, core, pending>>

\* processAllFiles() from the end of one await to the next one, or to its end
ProcessAllFilesStep ==
  /\ batch.proc # <<>>
  /\ LET pr          == batch.proc[1]
         file        == pr.files[pr.i]
         redactedPdf == RedactPdfByAreas(file.bytes,
                                         PatternMatchesToRedactions(file.patterns), 2, now)
         results     == IF redactedPdf.ok
                          THEN Append(pr.results,
                                      [name  |-> ReplaceFirst(file.name, S_DOTPDF, S_REDACTED),
                                       bytes |-> [pages |-> redactedPdf.pages,
                                                  meta  |-> redactedPdf.meta]])
                          ELSE pr.results
         settled     == IF redactedPdf.ok
                          THEN MapFile(batch.files, file.id,
                                       [status |-> "done"])
                          ELSE MapFile(batch.files, file.id,
                                       [status |-> "error", error |-> "Redaction failed"])
     IN  IF pr.i < Len(pr.files)
           THEN batch' = [batch EXCEPT
                            !.files = MapFile(settled, pr.files[pr.i + 1].id,
                                              [status |-> "processing"]),
                            !.proc = <<[pr EXCEPT !.i = pr.i + 1, !.results = results]>>]
           ELSE batch' = [batch EXCEPT !.files = settled, !.proc = <<>>,
                                       !.processedFiles = results,
                                       !.isProcessing = FALSE]
  /\ UNCHANGED <<lib, now, ed, job, run, events, drawn, core, pending>>

RECURSIVE ZipEntries(_, _)
\* zip.file(file.name, file.bytes) for each file: an entry of a name that is
\* there already is replaced
ZipEntries(files, zip) ==
  IF files = <<>>
    THEN zip
    ELSE LET f == Head(files)
         IN  ZipEntries(Tail(files),
                        IF \E i \in 1..Len(zip) : zip[i].name = f.name
                          THEN [i \in 1..Len(zip) |-> IF zip[i].name = f.name THEN f ELSE zip[i]]
                          ELSE Append(zip, f))

\* downloadAll(), the button shown when there are processed files
DownloadAll ==
  /\ batch.files # <<>>
  /\ batch.processedFiles # <<>>
  /\ batch' = [batch EXCEPT !.downloaded =
                              IF Len(batch.processedFiles) = 1
                                THEN <<[name    |-> batch.processedFiles[1].name,
                                        entries |-> batch.processedFiles]>>
                                ELSE <<[name    |-> <<"redacted-documents.zip">>,
                                        entries |-> ZipEntries(batch.processedFiles, <<>>)]>>]
  /\ BatchEvent
  /\ UNCHANGED <<lib, now, ed, job, run, drawn, core, pending>>

InitBatch ==
  /\ lib = LibIdle([pages |-> <<Page(<<>>, TRUE)>>, meta |-> PlainMeta])
  /\ now = 1
  /\ ed = EdInit
  /\ job = <<>>
  /\ run = NoRun
  /\ events = 0
  /\ batch = BatchInit
  /\ drawn = NoneDrawn
  /\ core = NoCalls
  /\ pending = NonePending

NextBatch ==
  \/ BatchOnDrop
  \/ BatchRemoveFile
  \/ BatchClearAll
  \/ BatchTogglePattern
  \/ ScanAllFilesStart
  \/ ScanAllFilesStep
  \/ ProcessAllFilesStart
  \/ ProcessAllFilesStep
  \/ DownloadAll

SpecBatch == InitBatch /\ [][NextBatch]_vars

\* a turn of scanAllFiles can be taken exactly when a call is in flight, and
\* it changes batch.scan
ScanPending == batch.scan # <<>>

\* the calls in flight go on when their awaits resolve: weak fairness of
\* both loops, the one of ScanAllFilesStep with its ENABLED written as
\* ScanPending
SpecBatchFair ==
  /\ SpecBatch
  /\ ([]<>(~ScanPending) \/ []<><<ScanAllFilesStep>>_vars)
  /\ WF_vars(ProcessAllFilesStep)

Init == LibInit /\ now = 1 /\ ed = EdInit /\ job = <<>> /\ run = NoRun /\ events = 0
        /\ batch = BatchInit /\ drawn = NoneDrawn /\ core = NoCalls
        /\ pending = NonePending

Next ==
  \/ CallRedactPdfByAreas
  \/ CallVerifyRedaction
  \/ CallFindTextInPdf
  \/ CallDetectSensitivePatterns
  \/ CallSanitizePdf

Spec == Init /\ [][Next]_vars

InitEditor ==
  /\ lib = LibIdle([pages |-> <<Page(<<>>, TRUE)>>, meta |-> PlainMeta])
  /\ now = 1
  /\ ed = EdInit
  /\ job = <<>>
  /\ run = NoRun
  /\ events = 0
  /\ batch = BatchInit
  /\ drawn = NoneDrawn
  /\ core = NoCalls
  /\ pending = NonePending

NextEditor ==
  \/ OnDrop
  \/ NewFile
  \/ SetTool
  \/ ZoomOut
  \/ ZoomIn
  \/ PrevPage
  \/ NextPage
  \/ SetSearchTerm
  \/ HandleSearchStart
  \/ HandleSearchFinish
  \/ AddSearchResultsAsRedactions
  \/ TogglePattern
  \/ HandleDetectPatternsStart
  \/ HandleDetectPatternsFinish
  \/ AddPatternResultsAsRedactions
  \/ HandleMouseDown
  \/ HandleMouseMove
  \/ HandleMouseUp
  \/ RemoveRedaction
  \/ ClearAllRedactions
  \/ ApplyRedactionsStart
  \/ ApplyRedactionsFinish
  \/ ToastTimeout

SpecEditor == InitEditor /\ [][NextEditor]_vars

(***************************************************************************)
(* The earlier version of lib/redaction-engine.ts, which draws the black   *)
(* rectangles on the pages of the document it is given.  A page of its     *)
(* result holds what the page held and, in rectangles, what was drawn on   *)
(* it, from the bottom left corner of the page.                            *)
(***************************************************************************)
\* DrawRectangle, had it taken area.y as the y of the page
DrawRectangle_TopLeft(area, height) ==
  [x |-> area.x, y |-> area.y, width |-> area.width, height |-> area.height]

\* the rectangle of page.drawRectangle({...}) for one area, height being
\* page.getSize().height
DrawRectangle(area, height) ==
  [x      |-> area.x,
   y      |-> (height - area.y) - area.height,
   width  |-> area.width,
   height |-> area.height]

\* the earlier redactPdfByAreas(pdfBytes, redactionAreas): the pages, and the
\* metadata it sets
EarlierRedactPdfByAreas(doc, redactionAreas) ==
  [ok    |-> TRUE,
   err   |-> "",
   pages |-> [i \in 1..Len(doc.pages) |->
                LET page  == doc.pages[i]
                    areas == RedactionsByPage(redactionAreas, i - 1)
                IN  [width      |-> page.width,
                     height     |-> page.height,
                     renderable |-> page.renderable,
                     items      |-> page.items,
                     raster     |-> page.raster,
                     rectangles |-> [k \in 1..Len(areas) |->
                                       DrawRectangle(areas[k], page.height)]]],
   meta  |-> [title |-> "", author |-> "", subject |-> "", keywords |-> <<>>,
              producer |-> "ActuallyRedactPDF", creator |-> "ActuallyRedactPDF"]]

CallEarlierRedactPdfByAreas ==
  /\ lib.fn = "none"
  /\ \E areas \in AreaLists(lib.doc) :
       lib' = [lib EXCEPT !.fn = "earlierRedactPdfByAreas", !.areas = areas,
                          !.out = EarlierRedactPdfByAreas(lib.doc, areas)]
  /\ UNCHANGED <<now, ed, job, run, events, batch, drawn, core, pending>>

InitEarlier == Init

NextEarlier == CallEarlierRedactPdfByAreas

SpecEarlier == InitEarlier /\ [][NextEarlier]_vars

InitCalls == InitEditor

NextCalls ==
  \/ StartDetectSensitivePatterns
  \/ StartFindTextInPdf
  \/ DetectPageTurn
  \/ FindPageTurn

SpecCalls == InitCalls /\ [][NextCalls]_vars

(***************************************************************************)
(* Properties of the engine's functions.                                   *)
(***************************************************************************)
\* the runs of a page that text extraction returns
TextRuns(page) == SelectSeq(page.items, LAMBDA it : it.hasStr)

OutDoc == [pages |-> lib.out.pages, meta |-> lib.out.meta]

Redacted == lib.fn = "redactPdfByAreas" /\ lib.out.ok

OwnsRegion(areas, pageIndex) == \E k \in 1..Len(areas) : areas[k].pageIndex = pageIndex

\* C1: a document redactPdfByAreas returns has no extractable text run on a
\* page that owns a region, and verifyRedaction on it with the same regions
\* reports success with no fragment.
C1_DestructionInvariant ==
  /\ Redacted =>
       /\ \A i \in 1..Len(lib.out.pages) :
            OwnsRegion(lib.areas, i - 1) => TextRuns(lib.out.pages[i]) = <<>>
       /\ VerifyRedaction(OutDoc, lib.areas) = [success |-> TRUE, extractedText |-> <<>>]
  /\ (lib.fn = "verifyRedaction" /\ lib.prev = "redactPdfByAreas") =>
       lib.report = [success |-> TRUE, extractedText |-> <<>>]

\* a redacted document, verified, whose input had text under the regions
C1_Witness ==
  /\ lib.fn = "verifyRedaction"
  /\ lib.prev = "redactPdfByAreas"
  /\ lib.report.success
  /\ Len(VerifyRedaction(lib.doc, lib.areas).extractedText) >= 2

\* C2: a page that owns no region is carried through redactPdfByAreas
\* unmodified: its text runs are those of the input page.
C2_UntouchedPages ==
  Redacted =>
    \A i \in 1..Len(lib.doc.pages) :
      ~OwnsRegion(lib.areas, i - 1) =>
        /\ i <= Len(lib.out.pages)
        /\ TextRuns(lib.out.pages[i]) = TextRuns(lib.doc.pages[i])

Min(S) == CHOOSE v \in S : \A w \in S : v <= w

Max(S) == CHOOSE v \in S : \A w \in S : v >= w

\* the bounding rectangle of a non-empty set of rectangles
UnionBox(boxes) ==
  LET left   == Min({b.x : b \in boxes})
      top    == Min({b.y : b \in boxes})
      right  == Max({b.x + b.width : b \in boxes})
      bottom == Max({b.y + b.height : b \in boxes})
  IN  [x |-> left, y |-> top, width |-> right - left, height |-> bottom - top]

RectOf(m) == [x |-> m.x, y |-> m.y, width |-> m.width, height |-> m.height]

\* the boxes of the runs whose offset range [start, end) meets [from, to)
OverlappingBoxes(page, from, to) ==
  LET positionMap == BuildText(page.items, <<>>, <<>>).positionMap
  IN  {ItemBox(page, positionMap[k].item) :
         k \in {j \in 1..Len(positionMap) :
                  positionMap[j].start < to /\ positionMap[j].end > from}}

RECURSIVE AllMatches(_, _, _)
\* the matches of a pattern in a text, in order
AllMatches(p, s, lastIndex) ==
  LET m == RegexExec(p, s, lastIndex)
  IN  IF m = <<>> THEN <<>>
      ELSE <<m[1]>> \o AllMatches(p, s, m[1].index + Len(m[1].text))

\* the regions the span union gives for one page and one pattern type
UnionRegions(page, patternType) ==
  LET found == AllMatches(PATTERNS[patternType],
                          BuildText(page.items, <<>>, <<>>).fullText, 0)
  IN  [k \in 1..Len(found) |->
         UnionBox(OverlappingBoxes(page, found[k].index,
                                   found[k].index + Len(found[k].text)))]

MatchesOn(matches, pageIndex, patternType) ==
  SelectSeq(matches, LAMBDA m : m.pageIndex = pageIndex /\ m.patternType = patternType)

\* C3: for every pattern match detectSensitivePatterns emits exactly one
\* region, the bounding rectangle of all the runs whose offset range
\* overlaps the match.
C3_SpanUnion ==
  lib.fn = "detectSensitivePatterns" =>
    \A i \in 1..Len(lib.doc.pages), t \in Range(lib.types) :
      LET emitted == MatchesOn(lib.matches, i - 1, t)
      IN  [k \in 1..Len(emitted) |-> RectOf(emitted[k])]
            = UnionRegions(lib.doc.pages[i], t)

\* the pages with a run "CONF" followed by a run "IDENTIAL"
HasSplitTerm(page) ==
  \E k \in 1..(Len(TextRuns(page)) - 1) :
    /\ TextRuns(page)[k].str = S_CONF
    /\ TextRuns(page)[k + 1].str = S_IDENTIAL

SplitTermBox(page) ==
  UnionBox({ItemBox(page, it) :
              it \in {r \in Range(TextRuns(page)) : r.str \in {S_CONF, S_IDENTIAL}}})

\* C4: on a page with adjacent runs "CONF" and "IDENTIAL", findTextInPdf
\* for "CONFIDENTIAL" returns exactly one match, whose rectangle spans the
\* boxes of both runs.
C4_SplitLiteralMatch ==
  (lib.fn = "findTextInPdf" /\ lib.term = S_CONFIDENTIAL) =>
    \A i \in 1..Len(lib.doc.pages) :
      HasSplitTerm(lib.doc.pages[i]) =>
        LET onPage == SelectSeq(lib.matches, LAMBDA m : m.pageIndex = i - 1)
        IN  /\ Len(onPage) = 1
            /\ RectOf(onPage[1]) = SplitTermBox(lib.doc.pages[i])

RemoveAt(q, i) == SubSeq(q, 1, i - 1) \o SubSeq(q, i + 1, Len(q))

\* C5: detectSensitivePatterns(doc, P) holds exactly the matches of the
\* types of P; without one type of P the result is the same list less the
\* matches of that type.
C5_PatternToggling ==
  lib.fn = "detectSensitivePatterns" =>
    /\ \A t \in PatternTypes :
         SelectSeq(lib.matches, LAMBDA m : m.patternType = t)
           = IF t \in Range(lib.types)
               THEN DetectSensitivePatterns(lib.doc, <<t>>)
               ELSE <<>>
    /\ \A i \in 1..Len(lib.types) :
         DetectSensitivePatterns(lib.doc, RemoveAt(lib.types, i))
           = SelectSeq(lib.matches, LAMBDA m : m.patternType # lib.types[i])

\* a scan with a type disabled, of a document with matches of an enabled
\* type and matches the disabled type would have given
C5_Witness ==
  /\ lib.fn = "detectSensitivePatterns"
  /\ Len(lib.types) >= 2
  /\ Cardinality({lib.matches[k].patternType : k \in 1..Len(lib.matches)}) >= 2
  /\ \E t \in PatternTypes \ Range(lib.types) :
       DetectSensitivePatterns(lib.doc, <<t>>) # <<>>

\* the document verifyRedaction was given
Verified == IF lib.prev = "none" THEN lib.doc ELSE OutDoc

\* the indices the runs of a page of the verified document can have
RunIndices == 1..Max({0} \cup {Len(Verified.pages[i].items) : i \in 1..Len(Verified.pages)})

\* the (area, run) pairs of the verified document that overlap, the area's
\* page being a page of the document
ResidualPairs ==
  {<<a, i>> \in (1..Len(lib.areas)) \X RunIndices :
     /\ lib.areas[a].pageIndex < Len(Verified.pages)
     /\ i <= Len(TextRuns(Verified.pages[lib.areas[a].pageIndex + 1]))
     /\ LET page == Verified.pages[lib.areas[a].pageIndex + 1]
            item  == TextRuns(page)[i]
            x    == item.tx
            y    == page.height - item.ty
        IN  /\ x < lib.areas[a].x + lib.areas[a].width
            /\ x + OrElse(item.width, 0) > lib.areas[a].x
            /\ y < lib.areas[a].y + lib.areas[a].height
            /\ y + OrElse(item.height, 12) > lib.areas[a].y}

ResidualText(pair) ==
  TextRuns(Verified.pages[lib.areas[pair[1]].pageIndex + 1])[pair[2]].str

C10_SanitizerResult ==
  lib.fn = "sanitizePdf" =>
    /\ lib.out.meta.title = ""
    /\ lib.out.meta.author = ""
    /\ lib.out.meta.subject = ""
    /\ lib.out.meta.keywords = <<>>
    /\ lib.out.meta.producer = "ActuallyRedactPDF - Sanitized"
    /\ lib.out.meta.creator = "ActuallyRedactPDF"
    /\ lib.t0 <= lib.out.meta.creationDate
    /\ lib.out.meta.creationDate <= lib.out.meta.modDate
    /\ lib.out.meta.modDate <= now

\* a sanitized document whose input had every metadata field set and dates
\* before the call
C10_Witness ==
  /\ lib.fn = "sanitizePdf"
  /\ lib.doc.meta.title # ""
  /\ lib.doc.meta.keywords # <<>>
  /\ lib.doc.meta.creationDate < lib.t0
  /\ lib.out.meta.creationDate # lib.doc.meta.creationDate

(***************************************************************************)
(* Properties of the editor, checked under SpecEditor.                     *)
(***************************************************************************)
HasUnrenderablePage(doc) == \E i \in 1..Len(doc.pages) : ~doc.pages[i].renderable

RenderFailureShown ==
  [success |-> FALSE, message |-> "Redaction failed. Please try again.", count |-> 0]

\* C8: when a page of the document fails to rasterize, redactPdfByAreas
\* rejects and returns no document, and the applyRedactions call that awaited
\* it hands nothing to downloadPdf, shows no success toast of its own, and
\* ends with the failure result shown and isProcessing false.
C8_RenderFailureFatal ==
  [][(job # <<>> /\ job' = <<>> /\ HasUnrenderablePage(job[1].pdfBytes))
       => LET redactedPdf == RedactPdfByAreas(job[1].pdfBytes,
                                              PdfScaleRedactions(job[1].redactions), 2, now)
          IN  /\ ~redactedPdf.ok
              /\ redactedPdf.pages = <<>>
              /\ run'.phase = "failed"
              /\ run'.delivered = <<>>
              /\ "downloadPdf" \notin Range(run'.calls)
              /\ ed'.verificationResult = <<RenderFailureShown>>
              /\ ed'.showSuccess = ed.showSuccess
              /\ ~ed'.isProcessing]_vars

\* an applyRedactions call has ended on a document whose second page fails
\* to rasterize
C8_Witness ==
  /\ run.phase = "failed"
  /\ run.input # <<>>
  /\ HasUnrenderablePage(run.input[1])
  /\ run.input[1].pages[1].renderable
  /\ run.areas # <<>>
  /\ ed.verificationResult = <<RenderFailureShown>>

\* the first place of a name in a call log, 0 when it is not there
IndexOf(calls, name) ==
  IF name \in Range(calls)
    THEN CHOOSE i \in 1..Len(calls) : calls[i] = name /\ \A j \in 1..(i - 1) : calls[j] # name
    ELSE 0

\* C9: an applyRedactions call that delivered a file called sanitizePdf after
\* redactPdfByAreas and before verifyRedaction and downloadPdf.
C9_StageOrder ==
  (run.phase = "done" /\ run.delivered # <<>>)
    => /\ "sanitizePdf" \in Range(run.calls)
       /\ IndexOf(run.calls, "redactPdfByAreas") < IndexOf(run.calls, "sanitizePdf")
       /\ IndexOf(run.calls, "sanitizePdf") < IndexOf(run.calls, "verifyRedaction")
       /\ IndexOf(run.calls, "sanitizePdf") < IndexOf(run.calls, "downloadPdf")

(***************************************************************************)
(* Further properties of the engine, checked under Spec.                   *)
(***************************************************************************)
\* the fields of a metadata record that sanitizePdf sets to fixed values
Descriptive(meta) ==
  [title    |-> meta.title,
   author   |-> meta.author,
   subject  |-> meta.subject,
   keywords |-> meta.keywords,
   producer |-> meta.producer,
   creator  |-> meta.creator]

\* C11: sanitizePdf applied to its own output returns the same title, author,
\* subject, keywords, producer and creator as its first application did, and
\* the same pages.
C11_IdempotentSanitize ==
  (lib.fn = "sanitizePdf" /\ lib.prev = "sanitizePdf")
    => /\ Descriptive(lib.out.meta) = Descriptive(lib.doc.meta)
       /\ lib.out.pages = lib.doc.pages

\* a second pass made later than the first one, whose dates differ from it
C11_Witness ==
  /\ lib.fn = "sanitizePdf"
  /\ lib.prev = "sanitizePdf"
  /\ lib.doc.meta.producer = "ActuallyRedactPDF - Sanitized"
  /\ lib.out.meta.modDate > lib.doc.meta.modDate

\* a text as findTextInPdf compares it
Folded(text, caseSensitive) == IF caseSensitive THEN text ELSE ToLowerCase(text)

\* the places of a text where a term occurs
Occurrences(text, term) ==
  {i \in 0..(Len(text) - Len(term)) : SubSeq(text, i + 1, i + Len(term)) = term}

\* C14: findTextInPdf returns, for each page, one match per occurrence of the
\* term in the page's concatenated run text, and the text of each match is
\* the matched substring.
C14_LiteralSearchOutput ==
  lib.fn = "findTextInPdf"
    => /\ \A i \in 1..Len(lib.matches) :
            Folded(lib.matches[i].text, lib.caseSensitive)
              = Folded(lib.term, lib.caseSensitive)
       /\ \A p \in 1..Len(lib.doc.pages) :
            Len(SelectSeq(lib.matches, LAMBDA m : m.pageIndex = p - 1))
              = Cardinality(Occurrences(
                  Folded(BuildText(lib.doc.pages[p].items, <<>>, <<>>).fullText,
                         lib.caseSensitive),
                  Folded(lib.term, lib.caseSensitive)))

\* C15: a document redactPdfByAreas returns has as many pages as the one
\* given, and its page i is the image of page i of the one given, of that
\* page's size, whatever the areas.
C15_PageOrderAndCount ==
  (lib.fn = "redactPdfByAreas" /\ lib.out.ok)
    => /\ Len(lib.out.pages) = Len(lib.doc.pages)
       /\ \A i \in 1..Len(lib.out.pages) :
            /\ Len(lib.out.pages[i].raster) = 1
            /\ lib.out.pages[i].raster[1].src = i - 1
            /\ lib.out.pages[i].width = lib.doc.pages[i].width
            /\ lib.out.pages[i].height = lib.doc.pages[i].height

\* a document of two different pages was redacted with areas on its second
\* page only
C15_Witness ==
  /\ lib.fn = "redactPdfByAreas"
  /\ lib.out.ok
  /\ Len(lib.doc.pages) = 2
  /\ lib.doc.pages[1] # lib.doc.pages[2]
  /\ lib.areas # <<>>
  /\ \A a \in 1..Len(lib.areas) : lib.areas[a].pageIndex = 1
  /\ Len(lib.out.pages) = 2

\* the source and label a RedactionBox of the editor can carry
SourceTags ==
  { [source |-> "manual",  label |-> "Page 1, Area 1"],
    [source |-> "search",  label |-> "123 (1)"],
    [source |-> "pattern", label |-> "ssn"] }

\* the ways n areas carry them: all of one source, or of each source in turn
Taggings(n) ==
  LET inTurn == <<"manual", "search", "pattern">>
      TagOf(source) == CHOOSE t \in SourceTags : t.source = source
  IN  {[i \in 1..n |-> t] : t \in SourceTags}
        \cup {[i \in 1..n |-> TagOf(inTurn[((i + k) % 3) + 1])] : k \in 0..2}

\* the areas with an id, a source and a label each, as RedactionBox has them
Tagged(areas, tags) ==
  [i \in 1..Len(areas) |->
     [pageIndex |-> areas[i].pageIndex,
      x         |-> areas[i].x,
      y         |-> areas[i].y,
      width     |-> areas[i].width,
      height    |-> areas[i].height,
      id        |-> i,
      source    |-> tags[i].source,
      label     |-> tags[i].label]]

\* C16: whatever source and label the areas carry, redactPdfByAreas returns
\* the document, and verifyRedaction the report, that they return for the
\* same areas without them.
C16_SourceIndependence ==
  \A tags \in Taggings(Len(lib.areas)) :
    /\ lib.fn = "redactPdfByAreas"
         => RedactPdfByAreas(lib.doc, Tagged(lib.areas, tags), lib.scale, lib.t0) = lib.out
    /\ lib.fn = "verifyRedaction"
         => VerifyRedaction(Verified, Tagged(lib.areas, tags)) = lib.report

\* a document was redacted under areas that mask one of its pages, and the
\* result was verified with the same areas
C16_Witness ==
  /\ lib.fn = "verifyRedaction"
  /\ lib.prev = "redactPdfByAreas"
  /\ lib.areas # <<>>
  /\ \E i \in 1..Len(lib.out.pages) : lib.out.pages[i].raster[1].masks # <<>>

\* the matches of the last search or scan on page p of the document
MatchesOfPage(p) == SelectSeq(lib.matches, LAMBDA m : m.pageIndex = p - 1)

\* what the same search or scan returns for page p as a document of its own,
\* with the page's index in the document
MatchesOfPageAlone(p) ==
  LET alone == [pages |-> <<lib.doc.pages[p]>>, meta |-> lib.doc.meta]
      found == IF lib.fn = "findTextInPdf"
                 THEN FindTextInPdf(alone, lib.term, lib.caseSensitive)
                 ELSE DetectSensitivePatterns(alone, lib.types)
  IN  [i \in 1..Len(found) |-> [found[i] EXCEPT !.pageIndex = p - 1]]

HasZeroRunPage(doc) == \E p \in 1..Len(doc.pages) : TextRuns(doc.pages[p]) = <<>>

\* C17: on a document with a page that has no text run, findTextInPdf and
\* detectSensitivePatterns return no match for that page, and for every other
\* page the matches, in page order, that the page gives on its own.
C17_ZeroRunPages ==
  (lib.fn \in {"findTextInPdf", "detectSensitivePatterns"} /\ HasZeroRunPage(lib.doc))
    => /\ \A p \in 1..Len(lib.doc.pages) :
            /\ TextRuns(lib.doc.pages[p]) = <<>> => MatchesOfPage(p) = <<>>
            /\ MatchesOfPage(p) = MatchesOfPageAlone(p)
       /\ lib.matches = Flatten([p \in 1..Len(lib.doc.pages) |-> MatchesOfPage(p)])

\* a search found its term on the page that follows a page without runs
C17_Witness ==
  /\ lib.fn = "findTextInPdf"
  /\ Len(lib.doc.pages) = 2
  /\ lib.doc.pages[1].items = <<>>
  /\ lib.matches # <<>>
  /\ lib.matches[1].pageIndex = 1

\* the strict axis-aligned test on two rectangles
Intersects(r, area) ==
  /\ r.x < area.x + area.width
  /\ r.x + r.width > area.x
  /\ r.y < area.y + area.height
  /\ r.y + r.height > area.y

\* the text of the runs of the area's page whose box, as findTextInPdf and
\* detectSensitivePatterns compute it, intersects the area
RunsInArea(doc, area) ==
  IF area.pageIndex >= Len(doc.pages)
    THEN <<>>
    ELSE LET page == doc.pages[area.pageIndex + 1]
             runs == TextRuns(page)
         IN  Flatten([i \in 1..Len(runs) |->
                        IF Intersects(ItemBox(page, runs[i]), area)
                          THEN <<runs[i].str>> ELSE <<>>])

\* C19: verifyRedaction reports a run for an area exactly when the run's
\* box, with top-left origin as the locator computes it, and the area
\* intersect under the strict axis-aligned test.
C19_VerifierOverlapTest ==
  lib.fn = "verifyRedaction"
    => lib.report.extractedText
         = Flatten([a \in 1..Len(lib.areas) |-> RunsInArea(Verified, lib.areas[a])])

\* newPage.drawImage(pngImage, {x: 0, y: 0, width, height}): the place on
\* the new page, from its top left corner, of the rectangle r of the image,
\* which is the canvas of the old page at the scale of the raster
DrawnOnPage(r, raster, page) ==
  LET canvasWidth  == lib.doc.pages[raster.src + 1].width * raster.scale
      canvasHeight == lib.doc.pages[raster.src + 1].height * raster.scale
  IN  [x      |-> (r.x * page.width) \div canvasWidth,
       y      |-> (r.y * page.height) \div canvasHeight,
       width  |-> (r.width * page.width) \div canvasWidth,
       height |-> (r.height * page.height) \div canvasHeight]

\* C21: at every render scale, the black rectangles of a page that
\* redactPdfByAreas returns, taken from the pixels of the image to the page,
\* are the rectangles x, y, width, height of the areas of that page, one
\* for each area.
C21_MaskPlacement ==
  (lib.fn = "redactPdfByAreas" /\ lib.out.ok)
    => \A i \in 1..Len(lib.out.pages) :
         LET page   == lib.out.pages[i]
             raster == page.raster[1]
             areas  == SelectSeq(lib.areas, LAMBDA a : a.pageIndex = i - 1)
         IN  /\ Len(raster.masks) = Len(areas)
             /\ \A k \in 1..Len(areas) :
                  DrawnOnPage(raster.masks[k], raster, page)
                    = [x |-> areas[k].x, y |-> areas[k].y,
                       width |-> areas[k].width, height |-> areas[k].height]

\* a page was rendered at twice its size and an area inside it was painted
C21_Witness ==
  /\ lib.fn = "redactPdfByAreas"
  /\ lib.out.ok
  /\ lib.scale = 2
  /\ \E i \in 1..Len(lib.out.pages) : \E k \in 1..Len(lib.out.pages[i].raster[1].masks) :
       /\ lib.out.pages[i].raster[1].masks[k].x > 0
       /\ lib.out.pages[i].raster[1].masks[k].width < 2 * lib.out.pages[i].width

RECURSIVE RegexMatches(_, _, _)
\* the matches of a global regular expression in a text, from lastIndex on
RegexMatches(p, s, lastIndex) ==
  LET match == RegexExec(p, s, lastIndex)
  IN  IF match = <<>>
        THEN <<>>
        ELSE <<match[1]>> \o RegexMatches(p, s, match[1].index + Len(match[1].text))

\* the runs of a page, in order
RunsOf(page) == SelectSeq(page.items, LAMBDA item : item.hasStr)

RECURSIVE RunOffset(_, _)
\* the place in the concatenated text of the first character of run j
RunOffset(runs, j) ==
  IF j = 1 THEN 0 ELSE RunOffset(runs, j - 1) + Len(runs[j - 1].str) + 1

\* the runs whose characters, with the space that follows them, hold place i
\* of the concatenated text
RunsHolding(runs, i) ==
  {j \in 1..Len(runs) : RunOffset(runs, j) <= i /\ i <= RunOffset(runs, j) + Len(runs[j].str)}

C25_VerifierDetectsLocated ==
  lib.fn \in {"findTextInPdf", "detectSensitivePatterns"}
    => \A k \in 1..Len(lib.matches) :
         LET m      == lib.matches[k]
             page   == lib.doc.pages[m.pageIndex + 1]
             report == VerifyRedaction(lib.doc, PatternMatchesToRedactions(<<m>>))
         IN  /\ ~report.success
             /\ \E r \in Range(RunsOf(page)) :
                  /\ ItemBox(page, r) = [x |-> m.x, y |-> m.y,
                                         width |-> m.width, height |-> m.height]
                  /\ r.str \in Range(report.extractedText)

(***************************************************************************)
(* Further properties of the editor, checked under SpecEditor.             *)
(***************************************************************************)
\* C12: every box of the redaction list is wider and higher than 10, the
\* size handleMouseUp admits a drawn box from, whatever made the box.
C12_NoDegenerateRegions ==
  \A i \in 1..Len(ed.redactions) :
    ed.redactions[i].width > 10 /\ ed.redactions[i].height > 10

\* patternResults.filter(p => p.patternType === type).length, the count the
\* panel shows for a type
PatternCount(type) ==
  Len(SelectSeq(ed.patternResults, LAMBDA m : m.patternType = type))

\* C13: the pattern results the editor shows, and the count it shows for each
\* type, hold no match of a type that is not selected at that moment.
C13_DisabledRulesNotCounted ==
  \A type \in PatternTypes :
    type \notin Range(ed.selectedPatterns) => PatternCount(type) = 0

\* the least and the greatest of two coordinates
Least(a, b) == IF a < b THEN a ELSE b
Greatest(a, b) == IF a < b THEN b ELSE a

\* the region, in page units from the top left corner of the page, holds
\* the rectangle of the page between the points from and to
HoldsDrag(region, from, to) ==
  /\ region.x <= Least(from.x, to.x)
  /\ region.y <= Least(from.y, to.y)
  /\ region.x + region.width  >= Greatest(from.x, to.x)
  /\ region.y + region.height >= Greatest(from.y, to.y)

\* C20: every region applyRedactions hands to redactPdfByAreas and
\* verifyRedaction that was drawn by hand is in page units at scale 1,
\* whatever the zoom it was drawn at: it holds the points of the displayed
\* page the mouse was pressed and released over.
C20_RegionUnits ==
  run.phase \in {"done", "failed"} =>
    \A i \in 1..Len(run.areas) : \A k \in 1..Len(drawn.boxes) :
      (run.areas[i].source = "manual" /\ run.areas[i].id = drawn.boxes[k].id)
        => HoldsDrag(run.areas[i], drawn.boxes[k].from, drawn.boxes[k].to)

\* C26: while a document is loaded, currentPage is a page of it, and every
\* region of the redaction list is on a page of it.
C26_EditorStateInvariant ==
  Loaded
    => /\ ed.totalPages = Len(ed.pdfBytes[1].pages)
       /\ ed.currentPage \in 1..ed.totalPages
       /\ \A i \in 1..Len(ed.redactions) :
            ed.redactions[i].pageIndex \in 0..(ed.totalPages - 1)

(***************************************************************************)
(* Properties of the earlier engine, checked under SpecEarlier.            *)
(***************************************************************************)
\* viewport.height - transform[5]: the y from the top of the page of a y
\* from its bottom
ToTopLeft(y, pageHeight) == pageHeight - y

\* C22: a y from the bottom of a page, taken to a y from its top and given
\* to the earlier engine as an area of no height, is drawn at the y it was;
\* and the rectangle the earlier engine draws for an area runs, from the top
\* of the page, from area.y to area.y + area.height, over the area's x and
\* width.
C22_CoordinateRoundTrip ==
  lib.fn = "earlierRedactPdfByAreas"
    => \A i \in 1..Len(lib.out.pages) :
         LET page  == lib.out.pages[i]
             areas == SelectSeq(lib.areas, LAMBDA a : a.pageIndex = i - 1)
         IN  /\ \A y \in 0..page.height :
                  DrawRectangle([x |-> 0, y |-> ToTopLeft(y, page.height),
                                 width |-> 0, height |-> 0], page.height).y = y
             /\ Len(page.rectangles) = Len(areas)
             /\ \A k \in 1..Len(areas) :
                  LET r == page.rectangles[k]
                  IN  /\ ToTopLeft(r.y + r.height, page.height) = areas[k].y
                      /\ ToTopLeft(r.y, page.height) = areas[k].y + areas[k].height
                      /\ r.x = areas[k].x
                      /\ r.width = areas[k].width

\* the earlier engine drew a rectangle for an area below the top of a page
C22_Witness ==
  /\ lib.fn = "earlierRedactPdfByAreas"
  /\ \E i \in 1..Len(lib.out.pages) : \E k \in 1..Len(lib.out.pages[i].rectangles) :
       /\ lib.out.pages[i].rectangles[k].height < lib.out.pages[i].height
       /\ lib.out.pages[i].rectangles[k].y > 0
       /\ lib.out.pages[i].rectangles[k].y + lib.out.pages[i].rectangles[k].height
            < lib.out.pages[i].height

(***************************************************************************)
(* Properties of calls in flight together, checked under SpecCalls.        *)
(***************************************************************************)
\* C23: whatever other calls of detectSensitivePatterns and findTextInPdf
\* ran before it or in turn with it, a call of detectSensitivePatterns that
\* has returned has the matches the function gives for its document and
\* pattern types alone, and no regular expression of PATTERNS has moved
\* from lastIndex 0.
C23_NoSharedState ==
  /\ \A t \in PatternTypes : core.lastIndex[t] = 0
  /\ \A c \in 1..Len(core.calls) :
       (core.calls[c].fn = "detectSensitivePatterns" /\ core.calls[c].done)
         => core.calls[c].matches
              = DetectSensitivePatterns(core.calls[c].doc, core.calls[c].patternTypes)

\* a call of detectSensitivePatterns started after another call on another
\* document, and returned with matches while that call was between two pages
C23_Witness ==
  /\ Len(core.calls) = 2
  /\ core.calls[2].fn = "detectSensitivePatterns"
  /\ core.calls[2].done
  /\ core.calls[2].matches # <<>>
  /\ ~core.calls[1].done
  /\ core.calls[1].pageNum = 2
  /\ core.calls[1].matches # <<>>
  /\ core.calls[1].doc # core.calls[2].doc

(***************************************************************************)
(* Properties of the batch processor, checked under SpecBatch.             *)
(***************************************************************************)
\* C18: the batch processor holds at most 10 files.
C18_BatchSizeLimit == Len(batch.files) <= 10

\* the steps of a file's status
StatusSteps ==
  { <<"pending", "scanning">>, <<"scanning", "scanned">>, <<"scanning", "error">>,
    <<"scanned", "processing">>, <<"processing", "done">>, <<"processing", "error">> }

\* C27: the status of a file of the batch changes only by a step of
\* pending -> scanning -> (scanned | error) or scanned -> processing ->
\* (done | error); a file that is done stays done.
C27_StatusMonotone ==
  [][\A i \in 1..Len(batch.files) : \A j \in 1..Len(batch'.files) :
       batch.files[i].id = batch'.files[j].id
         => \/ batch'.files[j].status = batch.files[i].status
            \/ <<batch.files[i].status, batch'.files[j].status>> \in StatusSteps]_vars

\* the name processAllFiles gives the output of a file
OutputName(file) == ReplaceFirst(file.name, S_DOTPDF, S_REDACTED)

\* C28: when no processAllFiles call is in flight, processedFiles holds one
\* output for each file of the list that is done, in the order of the list,
\* and no other.
C28_OutputsMatchFiles ==
  (~batch.isProcessing)
    => LET done == SelectSeq(batch.files, LAMBDA f : f.status = "done")
       IN  /\ Len(batch.processedFiles) = Len(done)
           /\ \A k \in 1..Len(done) :
                batch.processedFiles[k].name = OutputName(done[k])

\* redactPdfByAreas(file.bytes, redactionAreas) resolves
Redactable(doc) == \A p \in 1..Len(doc.pages) : doc.pages[p].renderable

\* what a turn of a loop over the files of a closure, at file i of them,
\* does to the files of the list: the file of the turn gets the status
\* settled, the next file of the closure the status next, and every other
\* file keeps its status
TurnSettles(files, i, settled, next) ==
  \A j \in 1..Len(batch'.files) :
    batch'.files[j].status =
      IF batch'.files[j].id = files[i].id
        THEN settled
        ELSE IF i < Len(files) /\ batch'.files[j].id = files[i + 1].id
          THEN next
          ELSE batch.files[j].status

\* a turn of scanAllFiles settles its file by that file alone, goes on to
\* the next file, and resets isScanning after the last one
ScanIsolated ==
  (batch.scan # <<>> /\ batch'.scan # batch.scan)
    => LET sc == batch.scan[1]
       IN  /\ TurnSettles(sc.files, sc.i,
                          IF Extractable(sc.files[sc.i].bytes) THEN "scanned" ELSE "error",
                          "scanning")
           /\ IF sc.i < Len(sc.files)
                THEN batch'.scan = <<[sc EXCEPT !.i = sc.i + 1]>> /\ batch'.isScanning
                ELSE batch'.scan = <<>> /\ ~batch'.isScanning

\* a turn of processAllFiles settles its file by that file alone, goes on
\* to the next file, and resets isProcessing after the last one
ProcessIsolated ==
  (batch.proc # <<>> /\ batch'.proc # batch.proc)
    => LET pr == batch.proc[1]
       IN  /\ TurnSettles(pr.files, pr.i,
                          IF Redactable(pr.files[pr.i].bytes) THEN "done" ELSE "error",
                          "processing")
           /\ IF pr.i < Len(pr.files)
                THEN /\ batch'.proc # <<>>
                     /\ batch'.proc[1].i = pr.i + 1
                     /\ batch'.isProcessing
                ELSE batch'.proc = <<>> /\ ~batch'.isProcessing

\* C29: a file whose scan or redaction fails ends in error and no other
\* file does for it: every file of a scanAllFiles or processAllFiles call is
\* settled in its turn by its own outcome, scanned or done when it succeeds
\* and error when it fails, and isScanning and isProcessing are in the end
\* reset to false.
C29_FailureIsolation ==
  /\ [][ScanIsolated /\ ProcessIsolated]_vars
  /\ (batch.isScanning ~> ~batch.isScanning)
  /\ (batch.isProcessing ~> ~batch.isProcessing)

\* a scan of three files ended with the second in error and the others
\* scanned, and the redaction of two files with the first in error and the
\* second done
C29_Witness ==
  /\ ~batch.isScanning
  /\ ~batch.isProcessing
  /\ \E i, j \in 1..Len(batch.files) :
       /\ i < j
       /\ batch.files[i].status = "error"
       /\ batch.files[i].error = "Scan failed"
       /\ batch.files[j].status \in {"scanned", "done"}
  /\ \E i, j \in 1..Len(batch.files) :
       /\ i < j
       /\ batch.files[i].status = "error"
       /\ batch.files[i].error = "Redaction failed"
       /\ batch.files[j].status = "done"

\* the regions from the first on are kept as they are and in their order,
\* and one region follows them for each of results, in the order of
\* results, with the page index of the result and its rectangle at SCALE
AppendsOnePerResult(results) ==
  LET n == Len(ed.redactions)
  IN  /\ Len(ed'.redactions) = n + Len(results)
      /\ \A i \in 1..n : ed'.redactions[i] = ed.redactions[i]
      /\ \A i \in 1..Len(results) :
           LET r == ed'.redactions[n + i]
           IN  /\ r.pageIndex = results[i].pageIndex
               /\ r.x = Times15(results[i].x)
               /\ r.y = Times15(results[i].y)
               /\ r.width = Times15(results[i].width)
               /\ r.height = Times15(results[i].height)

\* one region is gone from the list, one whose id is id, and the others
\* are kept as they are and in their order
RemovesOnly(id) ==
  \E k \in 1..Len(ed.redactions) :
    /\ ed.redactions[k].id = id
    /\ Len(ed'.redactions) = Len(ed.redactions) - 1
    /\ \A i \in 1..(k - 1) : ed'.redactions[i] = ed.redactions[i]
    /\ \A i \in k..Len(ed'.redactions) : ed'.redactions[i] = ed.redactions[i + 1]

\* C30: addSearchResultsAsRedactions and addPatternResultsAsRedactions keep
\* every region of the list as it is and in its order, append one region
\* for each result with the page index and the rectangle of that result,
\* and empty the list of results they added; removeRedaction(id) removes
\* the one region with that id and keeps every other.
C30_AddIsAppendOnly ==
  [][ /\ AddSearchResultsAsRedactions
        => AppendsOnePerResult(ed.searchResults) /\ ed'.searchResults = <<>>
      /\ AddPatternResultsAsRedactions
        => AppendsOnePerResult(ed.patternResults) /\ ed'.patternResults = <<>>
      /\ RemoveRedaction
        => \E id \in 1..MaxIds :
             /\ ed'.redactions = SelectSeq(ed.redactions, LAMBDA r : r.id # id)
             /\ RemovesOnly(id) ]_vars

\* the region of a search result is followed by the regions of two pattern
\* results of one page, added after it
C30_Witness ==
  /\ Len(ed.redactions) = 3
  /\ ed.redactions[1].source = "search"
  /\ ed.redactions[2].source = "pattern"
  /\ ed.redactions[3].source = "pattern"
  /\ ed.redactions[2].pageIndex = ed.redactions[3].pageIndex
  /\ ed.searchResults = <<>>
  /\ ed.patternResults = <<>>

====
